---------------------------- MODULE Spec2Model ----------------------------
(***************************************************************************)
(* Model of the ingestion-and-retrieval core of conductor-agent:           *)
(*   - the platform processors (src/data_processors/*.py),                 *)
(*   - the embedding generator and its chunker                             *)
(*     (src/knowledge_base/embeddings.py),                                 *)
(*   - the vector store (src/knowledge_base/vector_store.py),              *)
(*   - the retriever (src/knowledge_base/retrieval.py).                    *)
(*                                                                         *)
(* Each component has its own specification (SpecChunk, SpecEmbed,         *)
(* SpecStore, SpecRank, SpecRead, SpecProc); the variables of the other   *)
(* components stay at their idle values.                                   *)
(***************************************************************************)
EXTENDS Integers, Sequences, FiniteSets, TLC

VARIABLES
    pc,            \* position of the component under study
    paragraphs,    \* chunk_text: token count of each paragraph of text.split('\n\n')
    chunk_size,    \* chunk_text: the chunk_size argument
    overlap,       \* chunk_text: the overlap argument
    chunks,        \* chunk_text: the returned chunks
    model,         \* EmbeddingGenerator.model
    use_google,    \* EmbeddingGenerator.use_google (which provider path is taken)
    cache,         \* the embeddings_cache directory: cache key -> cache file
    last,          \* the last call made on the generator / store and its outcome
    backend,       \* the ChromaDB client: collection name -> existence and records
    collections,   \* VectorStore.collections: names of the cached collection handles
    uuid_counter,  \* number of uuid4() values stored so far
    processor,     \* which platform processor is running process()
    run,           \* process(): self.conversations so far, and whether process() raised
    expected,      \* the same run fed with the well-formed units only
    n_units,       \* export units met so far by the loop of process()
    n_wellformed,  \* how many of them were well-formed
    snip_conv,     \* extract_code_snippets: the conversation it is called on
    snippets       \* extract_code_snippets: the returned snippets

chunkVars == <<paragraphs, chunk_size, overlap, chunks>>
embedVars == <<model, use_google, cache>>
storeVars == <<backend, collections, uuid_counter>>
procVars == <<processor, run, expected, n_units, n_wellformed>>
snipVars == <<snip_conv, snippets>>
vars == <<pc, chunkVars, embedVars, last, storeVars, procVars, snipVars>>

(***************************************************************************)
(* Generic helpers                                                         *)
(***************************************************************************)
Max(a, b) == IF a >= b THEN a ELSE b
Min(a, b) == IF a <= b THEN a ELSE b

\* All sequences over S of length lo..hi.
SeqsOf(S, lo, hi) == UNION { [1..n -> S] : n \in lo..hi }

RECURSIVE SumSeq(_)
SumSeq(s) == IF s = <<>> THEN 0 ELSE Head(s) + SumSeq(Tail(s))

RECURSIVE Concat(_)
Concat(ss) == IF ss = <<>> THEN <<>> ELSE Head(ss) \o Concat(Tail(ss))

\* list.sort on records that carry their sort key in the field `key`:
\* ascending, elements with equal keys keeping their order (the sort is stable).
RECURSIVE InsertAscending(_, _)
InsertAscending(s, x) ==
    IF s = <<>> THEN <<x>>
    ELSE IF s[Len(s)].key <= x.key THEN Append(s, x)
    ELSE Append(InsertAscending(SubSeq(s, 1, Len(s) - 1), x), s[Len(s)])

RECURSIVE SortAscending(_)
SortAscending(s) ==
    IF s = <<>> THEN <<>>
    ELSE InsertAscending(SortAscending(SubSeq(s, 1, Len(s) - 1)), s[Len(s)])

(***************************************************************************)
(* EmbeddingGenerator.chunk_text  (embeddings.py 194-244)                  *)
(*                                                                         *)
(* The text is represented by the list text.split('\n\n') yields: one      *)
(* entry per paragraph, holding count_tokens(paragraph).  A paragraph is   *)
(* identified by its position in that list.  A chunk, the '\n\n'-join of   *)
(* its paragraphs, is represented by the sequence of the positions of its  *)
(* paragraphs, together with the number of leading paragraphs seeded from  *)
(* the previous chunk (overlap_paras).                                     *)
(***************************************************************************)
MaxParas       == 3      \* paragraphs per text
MaxParaTokens  == 2      \* tokens per paragraph
MaxChunkArg    == 3      \* chunk_size argument
MaxOverlapArg  == 2      \* overlap argument

settings_chunk_size    == 1000
settings_chunk_overlap == 200

\* `x or default`: Python's `or` takes the default for None and for 0 alike.
OrDefault(x, default) == IF x = 0 THEN default ELSE x

\* count_tokens of the paragraph at position p
count_tokens(toks, p) == toks[p]

ChunkTokens(toks, paras) == SumSeq([k \in 1..Len(paras) |-> count_tokens(toks, paras[k])])

\* Lines 224-232: walk current_chunk backwards, keeping paragraphs while they
\* fit in the overlap budget; stop at the first that does not fit.
RECURSIVE overlap_paras(_, _, _, _, _)
overlap_paras(toks, current_chunk, ov, acc, acc_tokens) ==
    IF current_chunk = <<>> THEN acc
    ELSE LET p == current_chunk[Len(current_chunk)]
             p_tokens == count_tokens(toks, p)
         IN IF acc_tokens + p_tokens <= ov
            THEN overlap_paras(toks, SubSeq(current_chunk, 1, Len(current_chunk) - 1),
                               ov, <<p>> \o acc, acc_tokens + p_tokens)
            ELSE acc

\* Mutant of ChunkIteration: on closing a chunk the paragraph that triggered
\* the close is not appended to the new chunk.
ChunkIterationDropsPara(toks, cs, ov, st, para) ==
    LET para_tokens == count_tokens(toks, para)
    IN IF st.current_tokens + para_tokens > cs /\ st.current_chunk # <<>>
       THEN LET ops == overlap_paras(toks, st.current_chunk, ov, <<>>, 0)
            IN [chunks |-> Append(st.chunks, [paras |-> st.current_chunk, carried |-> st.carried]),
                current_chunk |-> ops,
                current_tokens |-> ChunkTokens(toks, ops),
                carried |-> Len(ops)]
       ELSE [st EXCEPT !.current_chunk = Append(@, para),
                       !.current_tokens = @ + para_tokens]

\* Lines 216-238: one iteration of the loop over paragraphs.
ChunkIteration(toks, cs, ov, st, para) ==
    LET para_tokens == count_tokens(toks, para)
    IN IF st.current_tokens + para_tokens > cs /\ st.current_chunk # <<>>
       THEN LET ops == overlap_paras(toks, st.current_chunk, ov, <<>>, 0)
                ops_tokens == ChunkTokens(toks, ops)
            IN [chunks |-> Append(st.chunks, [paras |-> st.current_chunk, carried |-> st.carried]),
                current_chunk |-> Append(ops, para),
                current_tokens |-> ops_tokens + para_tokens,
                carried |-> Len(ops)]
       ELSE [st EXCEPT !.current_chunk = Append(@, para),
                       !.current_tokens = @ + para_tokens]

RECURSIVE ChunkLoop(_, _, _, _, _)
ChunkLoop(toks, cs, ov, st, para) ==
    IF para > Len(toks) THEN st
    ELSE ChunkLoop(toks, cs, ov, ChunkIteration(toks, cs, ov, st, para), para + 1)

\* Lines 206-244.
chunk_text(toks, cs_arg, ov_arg) ==
    LET cs == OrDefault(cs_arg, settings_chunk_size)
        ov == OrDefault(ov_arg, settings_chunk_overlap)
        st == ChunkLoop(toks, cs, ov,
                        [chunks |-> <<>>, current_chunk |-> <<>>,
                         current_tokens |-> 0, carried |-> 0], 1)
    IN IF st.current_chunk # <<>>
       THEN Append(st.chunks, [paras |-> st.current_chunk, carried |-> st.carried])
       ELSE st.chunks

(***************************************************************************)
(* EmbeddingGenerator.generate_embeddings and its cache                    *)
(* (embeddings.py 72-184)                                                  *)
(*                                                                         *)
(* A vector is represented by the pair <<model, text>> it is the embedding *)
(* of.  hashlib.md5 is taken as collision-free: a cache key is represented *)
(* by the string that is hashed.  A cache file is absent (NoFile),         *)
(* unreadable or not valid JSON (CorruptFile), or the record json.dump     *)
(* wrote.                                                                  *)
(***************************************************************************)
MaxTexts == 2            \* texts per generate_embeddings call

settings_embedding_model == "text-embedding-3-small"

Texts == {"a", "b"}      \* the texts that are embedded

NoFile      == [status |-> "absent"]
CorruptFile == [status |-> "corrupt"]

\* Python's None where a vector, or a list of vectors, is expected.
None == <<>>

\* The external provider: genai.embed_content / client.embeddings.create.
Embed(m, text) == <<m, text>>

\* Lines 150-154.
_get_cache_key(m, text) == m \o ":" \o text

CacheKeys(m) == { _get_cache_key(m, t) : t \in Texts }

\* Mutant of _get_cached_embedding: the cache file is never read.
_get_cached_embedding_blind(c, m, text) == None

\* Mutant of _get_cached_embedding: what is left of an unreadable or corrupt
\* file is returned as the vector.
_get_cached_embedding_trusting(c, m, text) ==
    LET k == _get_cache_key(m, text)
        cache_file == IF k \in DOMAIN c THEN c[k] ELSE NoFile
    IN CASE cache_file.status = "ok" -> cache_file.embedding
         [] cache_file.status = "corrupt" -> <<m, "corrupt">>
         [] OTHER -> None

\* Lines 156-169: a missing, unreadable or corrupt file gives None.
_get_cached_embedding(c, m, text) ==
    LET k == _get_cache_key(m, text)
        cache_file == IF k \in DOMAIN c THEN c[k] ELSE NoFile
    IN IF cache_file.status = "ok" THEN cache_file.embedding ELSE None

\* Mutant of _cache_embedding: nothing is written.
_cache_embedding_dropped(c, m, text, embedding, w) == c

\* Lines 171-184.  w is what the file system does with this write: "ok";
\* "open_fails" (open() raises, the file is left as it was); "dump_fails"
\* (the file was truncated by open() and the write did not complete).  The
\* exception is logged and swallowed.
\* WriteFile: the cache directory with the file of the key replaced or created.
_cache_embedding(c, m, text, embedding, w) ==
    LET k == _get_cache_key(m, text)
        WriteFile(dir, key, file) ==
            IF key \in DOMAIN dir THEN [dir EXCEPT ![key] = file] ELSE (key :> file) @@ dir
    IN CASE w = "ok"         -> WriteFile(c, k, [status |-> "ok", text_preview |-> text,
                                                  embedding |-> embedding,
                                                  model |-> m])
         [] w = "open_fails" -> c
         [] w = "dump_fails" -> WriteFile(c, k, CorruptFile)

WriteModes == {"ok", "open_fails", "dump_fails"}

\* Mutant of text_indices: the cache is not consulted, every text is sent.
text_indices_all(c, m, texts, use_cache) == [i \in 1..Len(texts) |-> i]

\* Lines 90-100: the positions of texts left with a placeholder.
text_indices(c, m, texts, use_cache) ==
    SelectSeq([i \in 1..Len(texts) |-> i],
              LAMBDA i : ~(use_cache /\ _get_cached_embedding(c, m, texts[i]) # None))

\* Lines 85-100: the embeddings list after the cache pass.
CachePass(c, m, texts, use_cache) ==
    [i \in 1..Len(texts) |->
        IF use_cache /\ _get_cached_embedding(c, m, texts[i]) # None
        THEN _get_cached_embedding(c, m, texts[i])
        ELSE None]

\* Mutant of StoreAt: the vector is stored at its position among the misses.
StoreAtMissPosition(embeddings, idxs, idx, embedding) ==
    [embeddings EXCEPT ![idx] = embedding]

\* Lines 116-117 and 131-133: embeddings[text_indices[idx]] = embedding.
StoreAt(embeddings, idxs, idx, embedding) ==
    [embeddings EXCEPT ![idxs[idx]] = embedding]

\* What generate_embeddings does with the vector of the text at position idx:
\* "place" (embeddings[original_idx] = embedding) or "cache" (the call of
\* _cache_embedding).
Event(ev, idx) == [ev |-> ev, idx |-> idx]

\* Lines 109-121 and 130-137: store the vectors of the first n cache misses at
\* their original positions and write each to the cache.
RECURSIVE FillMisses(_, _, _, _, _, _, _, _)
FillMisses(st, m, texts, idxs, idx, n, use_cache, wmode) ==
    IF idx > n THEN st
    ELSE LET original_idx == idxs[idx]
             text == texts[original_idx]
             embedding == Embed(m, text)
         IN FillMisses([embeddings |-> StoreAt(st.embeddings, idxs, idx, embedding),
                        cache |-> IF use_cache
                                  THEN _cache_embedding(st.cache, m, text, embedding, wmode[text])
                                  ELSE st.cache,
                        events |-> st.events \o <<Event("place", original_idx)>>
                                      \o (IF use_cache THEN <<Event("cache", original_idx)>>
                                          ELSE <<>>)],
                       m, texts, idxs, idx + 1, n, use_cache, wmode)

\* Mutant of generate_embeddings: the except clause logs the error and does
\* not re-raise, so the list built so far is returned.
generate_embeddings_swallows(c, m, google, texts, use_cache, fail_at, wmode) ==
    LET idxs == text_indices(c, m, texts, use_cache)
        st0 == [embeddings |-> CachePass(c, m, texts, use_cache), cache |-> c,
                events |-> <<>>]
        failed == fail_at \in 1..Len(idxs)
        n == IF ~failed THEN Len(idxs) ELSE IF google THEN fail_at - 1 ELSE 0
        st == FillMisses(st0, m, texts, idxs, 1, n, use_cache, wmode)
    IN [raised |-> FALSE,
        embeddings |-> st.embeddings,
        cache |-> st.cache,
        events |-> st.events,
        sent |-> [k \in 1..(IF failed /\ google THEN fail_at ELSE Len(idxs)) |-> texts[idxs[k]]],
        api_calls |-> IF idxs = <<>> THEN 0
                      ELSE IF ~google THEN 1
                      ELSE IF failed THEN fail_at ELSE Len(idxs),
        provider_failed |-> failed]

\* Lines 83-143.  fail_at = j >= 1 makes the provider fail on the call that
\* carries the j-th cache miss (on the OpenAI path all misses travel in one
\* call, so the call fails whatever j is); fail_at = 0, or beyond the number
\* of misses, is a provider that answers every call.
\* Result: whether the call raised, the returned list, the cache afterwards,
\* the texts sent to the provider and the number of provider calls.
generate_embeddings(c, m, google, texts, use_cache, fail_at, wmode) ==
    LET st0 == [embeddings |-> CachePass(c, m, texts, use_cache), cache |-> c,
                events |-> <<>>]
        result(idxs, failed, st) ==
            [raised |-> failed,
             embeddings |-> IF failed THEN None ELSE st.embeddings,
             cache |-> st.cache,
             events |-> st.events,
             sent |-> [k \in 1..(IF failed /\ google THEN fail_at ELSE Len(idxs)) |->
                          texts[idxs[k]]],
             api_calls |-> IF idxs = <<>> THEN 0
                           ELSE IF ~google THEN 1
                           ELSE IF failed THEN fail_at ELSE Len(idxs),
             provider_failed |-> failed]
        fill(idxs, failed) ==
            result(idxs, failed,
                   FillMisses(st0, m, texts, idxs, 1,
                              IF ~failed THEN Len(idxs) ELSE IF google THEN fail_at - 1 ELSE 0,
                              use_cache, wmode))
        misses(idxs) == fill(idxs, fail_at \in 1..Len(idxs))
    IN misses(text_indices(c, m, texts, use_cache))

(***************************************************************************)
(* VectorStore  (vector_store.py 15-161)                                   *)
(*                                                                         *)
(* The ChromaDB client is represented by `backend`, which maps a           *)
(* collection name to whether it exists and the sequence of its records in *)
(* insertion order; VectorStore.collections, the in-memory dict of         *)
(* collection handles, by the set of its keys.                             *)
(***************************************************************************)
MaxRecords == 3          \* records in the store

batch_size == 100

settings_conversations_collection == "conversations"
settings_code_collection == "code_snippets"
settings_top_k == 5

CollectionNames == {settings_conversations_collection, settings_code_collection}

NoCollection == [exists |-> FALSE, records |-> <<>>]

RecordsOf(b, name) == b[name].records

TotalRecords(b) ==
    Len(RecordsOf(b, settings_conversations_collection))
        + Len(RecordsOf(b, settings_code_collection))

\* Lines 45-54.  client.get_or_create_collection creates the collection in
\* the backend when it does not exist there.
get_or_create_collection(st, collection_name) ==
    IF collection_name \notin st.collections
    THEN [st EXCEPT !.backend[collection_name].exists = TRUE,
                    !.collections = @ \cup {collection_name}]
    ELSE st

\* str(uuid.uuid4()): values never repeat.  uuid_counter counts the values
\* that were stored; those drawn by a call that raises are never seen again.
uuid4(n) == <<"uuid", n>>

\* Mutant of collection_add: every record is appended, whatever its id.
collection_add_appends(records, documents, embeddings, metadatas, ids) ==
    records \o [i \in 1..Len(documents) |->
                   [id |-> ids[i], document |-> documents[i],
                    embedding |-> embeddings[i], metadata |-> metadatas[i]]]

\* chromadb Collection.add: the records are appended; a record whose id is
\* already in the collection is ignored.
collection_add(records, documents, embeddings, metadatas, ids) ==
    records \o SelectSeq([i \in 1..Len(documents) |->
                             [id |-> ids[i], document |-> documents[i],
                              embedding |-> embeddings[i], metadata |-> metadatas[i]]],
                         LAMBDA r : \A k \in 1..Len(records) : records[k].id # r.id)

\* Mutant of AddBatches: a final batch shorter than batch_size is not written.
RECURSIVE AddBatchesFullOnly(_, _, _, _, _, _)
AddBatchesFullOnly(st, texts, embeddings, metadatas, ids, i) ==
    IF i + batch_size - 1 > Len(texts) THEN st
    ELSE LET batch_end == i + batch_size - 1
         IN AddBatchesFullOnly(
                [records |-> collection_add(st.records,
                                            SubSeq(texts, i, batch_end),
                                            SubSeq(embeddings, i, batch_end),
                                            SubSeq(metadatas, i, batch_end),
                                            SubSeq(ids, i, batch_end)),
                 batches |-> Append(st.batches, [first |-> i, last |-> batch_end])],
                texts, embeddings, metadatas, ids, batch_end + 1)

\* Lines 82-94: write texts[i..] in batches of batch_size.  st holds the
\* records of the collection and the batches written so far, each by the
\* positions of its first and last input.
RECURSIVE AddBatches(_, _, _, _, _, _)
AddBatches(st, texts, embeddings, metadatas, ids, i) ==
    IF i > Len(texts) THEN st
    ELSE LET batch_end == Min(i + batch_size - 1, Len(texts))
         IN AddBatches(
                [records |-> collection_add(st.records,
                                            SubSeq(texts, i, batch_end),
                                            SubSeq(embeddings, i, batch_end),
                                            SubSeq(metadatas, i, batch_end),
                                            SubSeq(ids, i, batch_end)),
                 batches |-> Append(st.batches, [first |-> i, last |-> batch_end])],
                texts, embeddings, metadatas, ids, batch_end + 1)

NoIds == [given |-> FALSE]
GivenIds(ids) == [given |-> TRUE, ids |-> ids]

\* Lines 56-96.  st is the store with its generator: backend, collections,
\* uuid_counter, cache.  ids_arg is NoIds (ids=None) or GivenIds(ids).
\* Result: the store afterwards and the outcome of the embedding call.
add_documents(st, m, google, collection_name, texts, metadatas, ids_arg, fail_at, wmode) ==
    LET ids == IF ~ids_arg.given
               THEN [i \in 1..Len(texts) |-> uuid4(st.uuid_counter + i)]
               ELSE ids_arg.ids
        written(st2, r, added) ==
            [store |-> [st2 EXCEPT !.backend[collection_name].records = added.records,
                                   !.uuid_counter = IF ~ids_arg.given
                                                    THEN @ + Len(texts) ELSE @],
             gen |-> r, raised |-> FALSE, ids |-> ids, batches |-> added.batches]
        add(st2, r) ==
            IF r.raised
            THEN [store |-> st2, gen |-> r, raised |-> TRUE, ids |-> ids, batches |-> <<>>]
            ELSE written(st2, r,
                         AddBatches([records |-> RecordsOf(st2.backend, collection_name),
                                     batches |-> <<>>],
                                    texts, r.embeddings, metadatas, ids, 1))
        embedded(st1, r) == add([st1 EXCEPT !.cache = r.cache], r)
    IN embedded(get_or_create_collection(st, collection_name),
                generate_embeddings(st.cache, m, google, texts, TRUE, fail_at, wmode))

\* chromadb Collection.query under the cosine metric, in tenths: the distance
\* between the vectors of a text and of itself is 0, between the vectors of
\* two different texts it is 1.5 (they point away from each other).
NoWhere == [given |-> FALSE]
WhereField(key, value) == [given |-> TRUE, key |-> key, value |-> value]

\* chromadb Collection.query: the records that match the `where` filter, by
\* ascending distance, at most n_results of them.
collection_query(records, query_embedding, n_results, where) ==
    LET CosineDistance(a, b) == IF a = b THEN 0 ELSE 15
        matching == SelectSeq(records,
                        LAMBDA r : where.given =>
                                       /\ where.key \in DOMAIN r.metadata
                                       /\ r.metadata[where.key] = where.value)
        nearest == SortAscending([i \in 1..Len(matching) |->
                       [record |-> matching[i],
                        key |-> CosineDistance(query_embedding, matching[i].embedding)]])
    IN SubSeq(nearest, 1, Min(n_results, Len(nearest)))

\* Lines 98-135.  n_results = 0 stands for None as well (`or` treats them alike).
\* Result: the store afterwards, whether the call raised, the number of
\* records asked for and the parallel arrays as one list of hits.
query(st, m, google, collection_name, query_text, n_results, where, fail_at, wmode) ==
    LET n == OrDefault(n_results, settings_top_k)
        ask(st2, r) ==
            IF r.raised
            THEN [store |-> st2, raised |-> TRUE, requested |-> n, hits |-> <<>>]
            ELSE [store |-> st2, raised |-> FALSE, requested |-> n,
                  hits |-> collection_query(RecordsOf(st2.backend, collection_name),
                                            r.embeddings[1], n, where)]
        embedded(st1, r) == ask([st1 EXCEPT !.cache = r.cache], r)
    IN embedded(get_or_create_collection(st, collection_name),
                generate_embeddings(st.cache, m, google, <<query_text>>, TRUE,
                                    fail_at, wmode))

(***************************************************************************)
(* ConversationRetriever  (retrieval.py 23-147)                            *)
(*                                                                         *)
(* Scores are exact rationals in units of 1/36500: distances are multiples *)
(* of 1/10 and the recency factor is a multiple of 1/3650, so every        *)
(* product is an integer.  A created_at value is absent or empty           *)
(* ("none"; "absent" and "empty" where the two are told apart), a string   *)
(* that fromisoformat does not parse ("invalid"), or an ISO timestamp      *)
(* given by its age at the time of the search, (now - created_at).days,    *)
(* which is negative for a timestamp in the future.                        *)
(***************************************************************************)
MaxStored == 5           \* records in the conversations collection at a search
MaxN == 2                \* the n_results argument

NoCreatedAt == [kind |-> "none", days_old |-> 0]
CreatedAt(days_old) == [kind |-> "iso", days_old |-> days_old]

\* Mutant of ScoreOf: the distance itself is taken as the score.
ScoreOfDistance(distance) == distance * 3650

\* Lines 61 and 107: score = 1 - distance.
ScoreOf(distance) == (10 - distance) * 3650

\* Mutant of recency_adjusted: a created_at that does not parse counts as
\* older than a year.
recency_adjusted_unparsed(result) ==
    IF result.metadata.created_at.kind \in {"none", "absent", "empty"}
    THEN result
    ELSE LET recency_boost == IF result.metadata.created_at.kind # "iso" THEN 0
                              ELSE Max(0, 365 - result.metadata.created_at.days_old)
         IN [result EXCEPT !.score = (@ * (7 * 365 + 3 * recency_boost)) \div 3650]

\* Lines 127-142: the recency tilt of one result.
recency_adjusted(result) ==
    IF result.metadata.created_at.kind \in {"none", "absent", "empty"}      \* line 131
    THEN result
    ELSE IF result.metadata.created_at.kind # "iso"                        \* line 134 raises,
    THEN result                                                            \* lines 141-142
    ELSE LET days_old == result.metadata.created_at.days_old               \* line 136
             recency_boost == Max(0, 365 - days_old)                       \* line 139, times 365
         IN [result EXCEPT !.score = (@ * (7 * 365 + 3 * recency_boost)) \div 3650]

\* Mutant of _rerank_results: the adjusted results are not sorted.
_rerank_results_unsorted(results) ==
    [i \in 1..Len(results) |-> recency_adjusted(results[i])]

\* Lines 113-147: adjust each score, then sort by score, highest first
\* (a stable sort, written here as an ascending sort on the negated score).
_rerank_results(results) ==
    LET results_of(sorted) == [i \in 1..Len(sorted) |-> sorted[i].result]
        sort(adjusted) ==
            results_of(SortAscending([i \in 1..Len(adjusted) |->
                                         [result |-> adjusted[i],
                                          key |-> 0 - adjusted[i].score]]))
    IN sort([i \in 1..Len(results) |-> recency_adjusted(results[i])])

\* Lines 23-67.  platform_filter = "" stands for None (both are falsy).
\* Result: the store afterwards, whether the call raised, the number of
\* records asked of the store, the distances it reported, the candidates
\* before and after re-ranking, and the returned list.
search_conversations(st, m, google, query_text, n_results, platform_filter, fail_at, wmode) ==
    LET n == OrDefault(n_results, settings_top_k)                          \* line 40
        where == IF platform_filter # "" THEN WhereField("platform", platform_filter)
                 ELSE NoWhere
        result(q, formatted_results, reranked) ==
            [store |-> q.store, raised |-> FALSE, requested |-> q.requested,
             distances |-> [i \in 1..Len(q.hits) |-> q.hits[i].key],
             candidates |-> formatted_results, reranked |-> reranked,
             results |-> SubSeq(reranked, 1, Min(n, Len(reranked)))]
        rerank(q, formatted_results) ==
            result(q, formatted_results, _rerank_results(formatted_results))
        format(q) ==
            IF q.raised
            THEN [store |-> q.store, raised |-> TRUE, requested |-> q.requested,
                  distances |-> <<>>,
                  candidates |-> <<>>, reranked |-> <<>>, results |-> <<>>]
            ELSE rerank(q, [i \in 1..Len(q.hits) |->
                               [content |-> q.hits[i].record.document,
                                metadata |-> q.hits[i].record.metadata,
                                score |-> ScoreOf(q.hits[i].key),
                                id |-> q.hits[i].record.id]])
    IN format(query(st, m, google, settings_conversations_collection,
                    query_text, n * 2, where, fail_at, wmode))

\* Lines 69-111.  language_filter = "" stands for None (both are falsy).
\* Result: the store afterwards, whether the call raised, the number of
\* records asked of the store, the distances and ids it reported and the
\* returned list.
search_code(st, m, google, query_text, language_filter, n_results, fail_at, wmode) ==
    LET n == OrDefault(n_results, settings_top_k)                          \* line 86
        where == IF language_filter # "" THEN WhereField("language", language_filter)
                 ELSE NoWhere
        format(q) ==
            [store |-> q.store, raised |-> q.raised, requested |-> q.requested,
             distances |-> [i \in 1..Len(q.hits) |-> q.hits[i].key],
             ids |-> [i \in 1..Len(q.hits) |-> q.hits[i].record.id],
             results |-> [i \in 1..Len(q.hits) |->
                             [content |-> q.hits[i].record.document,
                              metadata |-> q.hits[i].record.metadata,
                              score |-> ScoreOf(q.hits[i].key),
                              id |-> q.hits[i].record.id]]]
    IN format(query(st, m, google, settings_code_collection,
                    query_text, n, where, fail_at, wmode))

\* str.upper() on the platform names and the role names.
upper(s) ==
    CASE s = "chatgpt" -> "CHATGPT" [] s = "gemini" -> "GEMINI"
      [] s = "grok" -> "GROK" [] s = "antigravity" -> "ANTIGRAVITY"
      [] s = "user" -> "USER" [] s = "assistant" -> "ASSISTANT"

\* sep.join(parts)
RECURSIVE join(_, _)
join(sep, parts) ==
    IF parts = <<>> THEN ""
    ELSE IF Len(parts) = 1 THEN parts[1]
    ELSE parts[1] \o sep \o join(sep, Tail(parts))

\* Lines 177-178: the block of one result.
format_block(result) ==
    "[Source: " \o upper(result.metadata.platform) \o " - " \o result.metadata.title
        \o "]\n" \o result.content \o "\n"

\* Mutant of context_parts: a block that does not fit is passed over and the
\* loop goes on with the next one.
RECURSIVE context_parts_skipping(_, _, _, _)
context_parts_skipping(results, i, max_tokens, st) ==
    IF i > Len(results) THEN st.context_parts
    ELSE LET formatted == format_block(results[i])
             estimated_tokens == Len(formatted) \div 4
         IN IF st.total_length + estimated_tokens > max_tokens
            THEN context_parts_skipping(results, i + 1, max_tokens, st)
            ELSE context_parts_skipping(results, i + 1, max_tokens,
                     [context_parts |-> Append(st.context_parts, formatted),
                      total_length |-> st.total_length + estimated_tokens])

\* Lines 172-190: the loop over results[i..], left at the first block that
\* would push the estimate past max_tokens.
RECURSIVE context_parts(_, _, _, _)
context_parts(results, i, max_tokens, st) ==
    IF i > Len(results) THEN st.context_parts
    ELSE LET formatted == format_block(results[i])
             estimated_tokens == Len(formatted) \div 4                  \* line 181
         IN IF st.total_length + estimated_tokens > max_tokens         \* line 183
            THEN st.context_parts
            ELSE context_parts(results, i + 1, max_tokens,
                     [context_parts |-> Append(st.context_parts, formatted),
                      total_length |-> st.total_length + estimated_tokens])

NoContext == "No relevant context found."

\* Lines 149-195.  Result: the store afterwards, whether the call raised, the
\* ranked results, the blocks included and the returned string.
get_context_for_query(st, m, google, query_text, max_tokens, platform_filter, fail_at, wmode) ==
    LET result(s, parts) ==
            [store |-> s.store, raised |-> s.raised, results |-> s.results,
             context_parts |-> parts,
             context |-> IF s.raised THEN ""
                         ELSE IF parts = <<>> THEN NoContext
                         ELSE join("\n---\n\n", parts)]
        build(s) == result(s, context_parts(s.results, 1, max_tokens,
                                            [context_parts |-> <<>>, total_length |-> 0]))
    IN build(search_conversations(st, m, google, query_text, 10, platform_filter,
                                  fail_at, wmode))

(***************************************************************************)
(* Platform processors  (src/data_processors/*.py)                         *)
(*                                                                         *)
(* An export unit is the thing one Conversation is built from: a record of *)
(* conversations.json (ChatGPT), an .html or .json file (Gemini), a .json  *)
(* file of the archive (Grok), a conversation directory (Antigravity).     *)
(* Message text is represented by its kind: "" (empty), "text" (a          *)
(* non-empty string), "nonstr" (a JSON value that is not a string: an      *)
(* object or a list).  `src` is the position of the message in its unit.   *)
(***************************************************************************)
MaxItems == 3            \* message nodes / messages / containers per export unit
MaxUnits == 2            \* export units per source


NoMessage == [none |-> TRUE]
Message(role, content, timestamp, src) ==
    [none |-> FALSE, role |-> role, content |-> content,
     timestamp |-> timestamp, src |-> src]

NoConversation == [none |-> TRUE]
Conversation(platform, title, messages) ==
    [none |-> FALSE, platform |-> platform, title |-> title, messages |-> messages]

\* Drop the None entries of a list of parse results.
Parsed(results) == SelectSeq(results, LAMBDA r : ~r.none)

\* base_processor.py 123-150, as far as process() depends on it:
\* re.findall raises TypeError on a message whose content is not a string.
extract_code_snippets_raises(conversation) ==
    \E i \in 1..Len(conversation.messages) : conversation.messages[i].content = "nonstr"

-----------------------------------------------------------------------------
(* ChatGPT  (chatgpt_processor.py)                                         *)
(* A record makes the parser raise (kind "bad": it is not a JSON object,    *)
(* or its create_time is not a number), or is an object whose              *)
(* mapping is a list of nodes in dict order.  A node has no message, or a  *)
(* message with parts ("" when no non-empty part, else "text") and a       *)
(* create_time: "missing" (no key), "null", "str" (a string), or           *)
(* "t1" < "t2" (numbers).                                                  *)

\* Lines 116-153.
chatgpt_parse_message(msg_data, src) ==
    IF msg_data.parts = "" THEN NoMessage                      \* line 133
    ELSE IF msg_data.create_time \in {"null", "str"}
         THEN NoMessage                         \* fromtimestamp raises TypeError, 139 and 151
    ELSE Message("user", msg_data.parts,
                 IF msg_data.create_time = "missing" THEN "None" ELSE msg_data.create_time,
                 src)

\* Mutant of message_nodes: every node gets the same sort key.
message_nodes_unkeyed(mapping) ==
    SelectSeq([i \in 1..Len(mapping) |-> [node |-> mapping[i], src |-> i, key |-> 0]],
              LAMBDA e : e.node.has_message)

\* Lines 86-93: the nodes that carry a message, each with its position and
\* its sort key, x.get('create_time', 0).
message_nodes(mapping) ==
    LET TimeOf(ct) == CASE ct = "t1" -> 1 [] ct = "t2" -> 2 [] OTHER -> 0
    IN
    SelectSeq([i \in 1..Len(mapping) |->
                  [node |-> mapping[i], src |-> i, key |-> TimeOf(mapping[i].create_time)]],
              LAMBDA e : e.node.has_message)

\* Line 93: sorting compares the keys; None compared with anything, and a
\* string compared with a number, raise TypeError as soon as there are two
\* nodes.
sort_raises(nodes) ==
    /\ Len(nodes) >= 2
    /\ \/ \E i \in 1..Len(nodes) : nodes[i].node.create_time = "null"
       \/ \E i, j \in 1..Len(nodes) : /\ nodes[i].node.create_time = "str"
                                      /\ nodes[j].node.create_time # "str"

\* Lines 65-114.  Any exception gives None (lines 112-114).
chatgpt_parse_conversation(conv_data) ==
    IF conv_data.kind = "bad" THEN NoConversation          \* conv_data.get raises
    ELSE LET nodes == message_nodes(conv_data.mapping)
         IN IF sort_raises(nodes) THEN NoConversation
            ELSE LET sorted == SortAscending(nodes)
                     messages == Parsed([i \in 1..Len(sorted) |->
                                     chatgpt_parse_message(sorted[i].node, sorted[i].src)])
                 IN Conversation("chatgpt", "t", messages)

\* Lines 54-60: one iteration of the loop over the records.  A Conversation
\* object is always truthy, so `if conversation:` only filters None.
chatgpt_process_unit(acc, conv_data) ==
    LET conversation == chatgpt_parse_conversation(conv_data)
    IN IF conversation.none THEN acc
       ELSE [acc EXCEPT !.conversations = Append(@, conversation)]

-----------------------------------------------------------------------------
(* Gemini  (gemini_processor.py)                                           *)
(* An .html file is unreadable (kind "bad") or a list of containers, each  *)
(* with a text ("short": empty or under 5 characters, or "text") and a     *)
(* class signal ("none", "user", "assistant").  A .json file is            *)
(* unparsable ("bad"), has a manifest/metadata name ("skip"), or holds a   *)
(* list of messages given by the kind of their content.                    *)

\* Mutant of html_messages: a skipped container toggles the role as well.
RECURSIVE html_messages_toggling(_, _, _, _)
html_messages_toggling(containers, i, current_role, messages) ==
    IF i > Len(containers) THEN messages
    ELSE LET container == containers[i]
             role == CASE container.cls = "user" -> "user"
                       [] container.cls = "assistant" -> "assistant"
                       [] OTHER -> current_role
         IN html_messages_toggling(containers, i + 1,
                                   IF role = "user" THEN "assistant" ELSE "user",
                                   IF container.text = "short" THEN messages
                                   ELSE Append(messages, Message(role, "text", "None", i)))

\* Lines 100-123: the loop over the containers.
RECURSIVE html_messages(_, _, _, _)
html_messages(containers, i, current_role, messages) ==
    IF i > Len(containers) THEN messages
    ELSE LET container == containers[i]
         IN IF container.text = "short"
            THEN html_messages(containers, i + 1, current_role, messages)
            ELSE LET role == CASE container.cls = "user" -> "user"
                               [] container.cls = "assistant" -> "assistant"
                               [] OTHER -> current_role
                 IN html_messages(containers, i + 1,
                                  IF role = "user" THEN "assistant" ELSE "user",
                                  Append(messages, Message(role, "text", "None", i)))

\* Lines 77-143.
_process_html_file(html_file) ==
    IF html_file.kind = "bad" THEN NoConversation
    ELSE LET messages == html_messages(html_file.containers, 1, "user", <<>>)
         IN IF messages = <<>> THEN NoConversation
            ELSE Conversation("gemini", "t", messages)

\* Lines 145-190.
_process_json_file(json_file) ==
    IF json_file.kind = "bad" THEN NoConversation
    ELSE LET messages == Parsed([i \in 1..Len(json_file.messages) |->
                                    IF json_file.messages[i] = "" THEN NoMessage
                                    ELSE Message("user", json_file.messages[i], "None", i)])
         IN IF messages = <<>> THEN NoConversation
            ELSE Conversation("gemini", "t", messages)

\* Lines 57-72: one iteration of either loop.  extract_code_snippets is
\* called outside any try: its exception leaves process().
gemini_process_unit(acc, file) ==
    IF file.kind = "skip" THEN acc                                       \* lines 66-67
    ELSE LET conversation == IF file.format = "html" THEN _process_html_file(file)
                             ELSE _process_json_file(file)
         IN IF conversation.none THEN acc
            ELSE [conversations |-> Append(acc.conversations, conversation),
                  raised |-> extract_code_snippets_raises(conversation)]

-----------------------------------------------------------------------------
(* Grok  (grok_processor.py)                                               *)
(* A .json file of the archive has a manifest/metadata/account name        *)
(* ("skip"), is unparsable ("bad"), or holds a list of messages given by   *)
(* the kind of their content, and possibly a prompt/response pair.         *)

\* Lines 146-189.
grok_parse_message(content, src) ==
    IF content = "" THEN NoMessage ELSE Message("user", content, "None", src)

\* Lines 75-144.
grok_parse_conversation(data) ==
    LET parsed == Parsed([i \in 1..Len(data.messages) |->
                             grok_parse_message(data.messages[i], i)])
        messages == IF parsed = <<>> /\ data.has_pair                    \* lines 116-127
                    THEN << Message("user", "text", "None", 1),
                            Message("assistant", "text", "None", 2) >>
                    ELSE parsed
    IN IF messages = <<>> THEN NoConversation
       ELSE Conversation("grok", "t", messages)

\* Lines 52-70: one iteration of the loop over the files; the whole body is
\* inside try/except, the conversation being appended before
\* extract_code_snippets is called.
grok_process_unit(acc, file) ==
    IF file.kind \in {"skip", "bad"} THEN acc
    ELSE LET conversation == grok_parse_conversation(file)
         IN IF conversation.none THEN acc
            ELSE [acc EXCEPT !.conversations = Append(@, conversation)]

-----------------------------------------------------------------------------
(* Antigravity  (antigravity_processor.py)                                 *)
(* A directory of the brain directory has a short name ("skip": not a      *)
(* conversation directory) or is a conversation directory with             *)
(*   task_md, plan_md: "absent", "heading" (first line is a heading),      *)
(*            "noheading", "blank" (only white space), "unreadable";       *)
(*   walkthrough: "absent" or "text";                                      *)
(*   overview: "absent", "user_only" (one USER_REQUEST section),           *)
(*            "pair" (a USER_REQUEST section with an ASSISTANT part);      *)
(*   task_logs: the number of non-blank task_*.txt files.                  *)

\* Lines 66-80.  Reading an unreadable file raises.
antigravity_title_raises(d) ==
    \/ d.task_md = "unreadable"
    \/ d.task_md = "absent" /\ d.plan_md = "unreadable"

antigravity_title(d) ==
    IF d.task_md # "absent"
    THEN (IF d.task_md = "heading" THEN "task heading" ELSE "Untitled Conversation")
    ELSE IF d.plan_md = "heading" THEN "plan heading"
    ELSE "Untitled Conversation"

\* Lines 132-172.
_parse_overview_file(overview) ==
    CASE overview = "pair" -> << Message("user", "text", "None", 1),
                                 Message("assistant", "text", "None", 2) >>
      [] overview = "user_only" -> << Message("user", "text", "None", 1) >>
      [] OTHER -> <<>>

\* Lines 96-112: the artifacts with content, as assistant messages.
artifact_messages(d) ==
    (IF d.task_md \in {"heading", "noheading"}
     THEN << Message("assistant", "text", "None", 11) >> ELSE <<>>)
    \o (IF d.plan_md \in {"heading", "noheading"}
        THEN << Message("assistant", "text", "None", 12) >> ELSE <<>>)
    \o (IF d.walkthrough = "text"
        THEN << Message("assistant", "text", "None", 13) >> ELSE <<>>)

\* Lines 58-130.  Result: the conversation, or None, or an exception.
_process_conversation_dir(d) ==
    IF antigravity_title_raises(d) \/ d.plan_md = "unreadable"
    THEN [raised |-> TRUE, conversation |-> NoConversation]
    ELSE LET messages == _parse_overview_file(d.overview)
                         \o [i \in 1..d.task_logs |-> Message("assistant", "text", "None", 2 + i)]
                         \o artifact_messages(d)
         IN [raised |-> FALSE,
             conversation |-> IF messages = <<>> THEN NoConversation
                              ELSE Conversation("antigravity", antigravity_title(d), messages)]

\* Lines 39, 43-53: one iteration of the loop over the directories.
antigravity_process_unit(acc, d) ==
    IF d.kind = "skip" THEN acc
    ELSE LET r == _process_conversation_dir(d)
         IN IF r.raised \/ r.conversation.none THEN acc
            ELSE [acc EXCEPT !.conversations = Append(@, r.conversation)]

-----------------------------------------------------------------------------
(* BaseProcessor.extract_code_snippets  (base_processor.py 123-150)        *)
(* A message content is represented by the sequence of its tokens: the     *)
(* three backticks of a fence (FENCE), a line break (NL), a character that *)
(* is neither a word character, a line break nor a backtick ("+", " "),    *)
(* or a maximal run of word characters (any other string).                 *)

FENCE == "FENCE"       \* the three backticks
NL    == "\n"

\* The position of the first fence at or after p, 0 when there is none:
\* what the non-greedy (.*?) followed by the closing backticks stops at.
RECURSIVE find_fence(_, _)
find_fence(s, p) ==
    IF p > Len(s) THEN 0
    ELSE IF s[p] = FENCE THEN p
    ELSE find_fence(s, p + 1)

\* Line 140, the pattern ```(\w+)?\n(.*?)``` tried at the fence at pos.  The
\* optional group takes the word that follows the fence; the next token must
\* be the line break (giving the word back does not help: the line break
\* would have to stand where the word is).
match_at(s, pos) ==
    LET IsWord(t) == t \notin {FENCE, NL, "+", " "}
        NoMatch == [matched |-> FALSE]
        p == pos + 1
        tagged == p <= Len(s) /\ IsWord(s[p])
        body == IF tagged THEN p + 1 ELSE p
    IN IF body <= Len(s) /\ s[body] = NL
       THEN LET close == find_fence(s, body + 1)
            IN IF close = 0 THEN NoMatch
               ELSE [matched |-> TRUE,
                     language |-> IF tagged THEN s[p] ELSE "",
                     code |-> SubSeq(s, body + 1, close - 1),
                     next |-> close + 1]
       ELSE NoMatch

\* Line 141: re.findall(pattern, content, re.DOTALL), scanning from pos; the
\* matches do not overlap.
RECURSIVE findall(_, _)
findall(s, pos) ==
    IF pos > Len(s) THEN <<>>
    ELSE IF s[pos] = FENCE /\ match_at(s, pos).matched
    THEN <<match_at(s, pos)>> \o findall(s, match_at(s, pos).next)
    ELSE findall(s, pos + 1)

\* str.strip() on a token sequence, then the string it stands for.
RECURSIVE strip(_)
strip(s) ==
    IF s = <<>> THEN ""
    ELSE IF s[1] \in {NL, " "} THEN strip(Tail(s))
    ELSE IF s[Len(s)] \in {NL, " "} THEN strip(SubSeq(s, 1, Len(s) - 1))
    ELSE join("", s)

CodeSnippet(code, language, context, source_conversation_id, platform) ==
    [code |-> code, language |-> language, context |-> context,
     source_conversation_id |-> source_conversation_id, platform |-> platform]

\* Lines 143-150: the snippets of one message.
snippets_of_message(conv, content) ==
    LET matches == findall(content, 1)
    IN [k \in 1..Len(matches) |->
           CodeSnippet(strip(matches[k].code),
                       IF matches[k].language = "" THEN "unknown" ELSE matches[k].language,
                       "From: " \o conv.title, conv.conversation_id, conv.platform)]

\* Lines 133-150.  conv.messages[i] is the content of the i-th message.
extract_code_snippets(conv) ==
    Concat([i \in 1..Len(conv.messages) |-> snippets_of_message(conv, conv.messages[i])])

-----------------------------------------------------------------------------
(* process(input_path) when input_path does not exist                      *)

\* chatgpt_processor.py 34-43: no existence check; zipfile.ZipFile() or
\*   open() raises FileNotFoundError, outside any try.
\* gemini_processor.py 35-55: is_file() is false, rglob() on the missing
\*   directory yields no file, the empty list is returned.
\* grok_processor.py 35-37 and antigravity_processor.py 34-36: the existence
\*   check returns [].
process_missing_path(platform) ==
    [conversations |-> <<>>, raised |-> (platform = "chatgpt")]

(***************************************************************************)
(* Idle values and the store as one record                                 *)
(***************************************************************************)
NoCall == [op |-> "none"]

EmptyCache(m) == [k \in CacheKeys(m) |-> NoFile]

EmbedIdle ==
    /\ model = settings_embedding_model
    /\ use_google = FALSE
    /\ cache = EmptyCache(model)
    /\ last = NoCall

StoreIdle ==
    /\ backend = [n \in CollectionNames |-> NoCollection]
    /\ collections = {}
    /\ uuid_counter = 0

Store == [backend |-> backend, collections |-> collections,
          uuid_counter |-> uuid_counter, cache |-> cache]

ChunkIdle == paragraphs = <<>> /\ chunk_size = 0 /\ overlap = 0 /\ chunks = <<>>

NewRun == [conversations |-> <<>>, raised |-> FALSE]

ProcIdle ==
    /\ processor = "none"
    /\ run = NewRun
    /\ expected = NewRun
    /\ n_units = 0
    /\ n_wellformed = 0

SnipIdle == snip_conv = NoConversation /\ snippets = <<>>

(***************************************************************************)
(* ConversationVectorStore  (vector_store.py 164-236) and ingest_data      *)
(* (ingest.py 29-122)                                                      *)
(*                                                                         *)
(* A message content is a string without blank line, so that each message  *)
(* is one paragraph of the conversation text.  count_tokens is the         *)
(* tokenizer's: the header paragraph has HeaderTokens tokens, a message     *)
(* paragraph MessageTokens.                                                *)
(***************************************************************************)
\* Lines 222-236, then text.split('\n\n') of chunk_text: the paragraphs of
\* the conversation text and their token counts.  The text ends with '\n'.
_conversation_to_text(conv) ==
    LET HeaderTokens == 10
        MessageTokens == 600
        n == Len(conv.messages)
        header == "Title: " \o conv.title \o "\nPlatform: " \o conv.platform
    IN [paragraphs |->
            <<IF n = 0 THEN header \o "\n" ELSE header>>
            \o [i \in 1..n |->
                   upper(conv.messages[i].role) \o ": " \o conv.messages[i].content
                       \o (IF i = n THEN "\n" ELSE "")],
        tokens |-> <<HeaderTokens>> \o [i \in 1..n |-> MessageTokens]]

\* Line 184: the id of the chunk at index i (from 0).
chunk_id(conversation_id, i) == conversation_id \o "_chunk_" \o ToString(i)

\* Lines 167-202.  w is what the file system does with the cache writes of
\* this call.
add_conversation(st, m, google, conv, fail_at, w) ==
    LET result(r, chunk_ids) ==
            [store |-> r.store, raised |-> r.raised, chunk_ids |-> chunk_ids]
        add(texts, metadatas, chunk_ids) ==
            result(add_documents(st, m, google, settings_conversations_collection,
                                 texts, metadatas, GivenIds(chunk_ids), fail_at,
                                 [t \in { texts[k] : k \in 1..Len(texts) } |-> w]),
                   chunk_ids)
        chunked(full_text, cs) ==
            add([k \in 1..Len(cs) |->
                    join("\n\n", [j \in 1..Len(cs[k].paras) |->
                                     full_text.paragraphs[cs[k].paras[j]]])],
                [k \in 1..Len(cs) |->
                    [conversation_id |-> conv.conversation_id,
                     platform |-> conv.platform,
                     title |-> conv.title,
                     chunk_index |-> k - 1,
                     total_chunks |-> Len(cs),
                     created_at |-> NoCreatedAt]],
                [k \in 1..Len(cs) |-> chunk_id(conv.conversation_id, k - 1)])
        chunk(full_text) == chunked(full_text, chunk_text(full_text.tokens, 0, 0))
    IN chunk(_conversation_to_text(conv))

\* Lines 204-220.
add_code_snippet(st, m, google, snippet, fail_at, w) ==
    LET text == "Language: " \o snippet.language \o "\nContext: " \o snippet.context
                    \o "\n\nCode:\n" \o snippet.code
        metadata == [language |-> snippet.language,
                     source_conversation_id |-> snippet.source_conversation_id,
                     platform |-> snippet.platform,
                     context |-> snippet.context]
        result(r) ==
            [store |-> IF r.raised THEN r.store
                       ELSE [r.store EXCEPT !.uuid_counter = @ + 1],
             raised |-> r.raised]
    IN result(add_documents(st, m, google, settings_code_collection,
                            <<text>>, <<metadata>>,
                            GivenIds(<<uuid4(st.uuid_counter + 1)>>), fail_at,
                            [t \in {text} |-> w]))

\* Mutant of delete_collection: the collection is deleted in the backend and
\* its handle stays in self.collections.
delete_collection_keeps_handle(st, collection_name, client_fails) ==
    IF client_fails \/ ~st.backend[collection_name].exists
    THEN [store |-> st, deleted |-> FALSE]
    ELSE [store |-> [st EXCEPT !.backend[collection_name] = NoCollection],
          deleted |-> TRUE]

\* Lines 137-145.  client.delete_collection raises when the collection does
\* not exist, or when the backend fails (client_fails); the exception is
\* logged and swallowed, self.collections is left as it was.
delete_collection(st, collection_name, client_fails) ==
    IF client_fails \/ ~st.backend[collection_name].exists
    THEN [store |-> st, deleted |-> FALSE]
    ELSE [store |-> [st EXCEPT !.backend[collection_name] = NoCollection,
                               !.collections = @ \ {collection_name}],
          deleted |-> TRUE]

\* Lines 152-155.
get_collection_count(st, collection_name) ==
    [store |-> get_or_create_collection(st, collection_name),
     count |-> Len(RecordsOf(st.backend, collection_name))]

\* Lines 157-161.
reset(st) ==
    [st EXCEPT !.backend = [n \in CollectionNames |-> NoCollection],
               !.collections = {}]

\* process(input_path) on a source that exists: the loop over its units, up
\* to the first exception that leaves process().
RECURSIVE process_units(_, _, _, _)
process_units(platform, units, i, acc) ==
    IF i > Len(units) \/ acc.raised THEN acc
    ELSE process_units(platform, units, i + 1,
             CASE platform = "chatgpt" -> chatgpt_process_unit(acc, units[i])
               [] platform = "gemini" -> gemini_process_unit(acc, units[i])
               [] platform = "grok" -> grok_process_unit(acc, units[i])
               [] platform = "antigravity" -> antigravity_process_unit(acc, units[i]))

\* Conversation.to_dict() (base_processor.py 59-69) of the k-th conversation
\* of a processor; the ids of the conversations of an export are distinct.
to_dict(c, k) ==
    [conversation_id |-> c.platform \o "-" \o ToString(k),
     platform |-> c.platform, title |-> c.title, messages |-> c.messages]

\* processor.code_snippets after process(): the snippets of the
\* conversations whose extraction did not raise.  KindTokens: the tokens of
\* a message content given by its kind: "code" is a text that holds one
\* fenced region tagged python.
code_snippets(conversations) ==
    LET KindTokens(content) ==
            IF content = "code" THEN <<FENCE, "python", NL, "code", NL, FENCE>>
            ELSE <<content>>
    IN
    Concat([k \in 1..Len(conversations) |->
               IF extract_code_snippets_raises(conversations[k]) THEN <<>>
               ELSE extract_code_snippets(
                        [to_dict(conversations[k], k) EXCEPT !.messages =
                            [i \in 1..Len(@) |-> KindTokens(@[i].content)]])])

NoPath == [kind |-> "none", units |-> <<>>]
MissingPath == [kind |-> "missing", units |-> <<>>]
Export(units) == [kind |-> "export", units |-> units]

\* ingest.py 64-102: the four blocks `if path and path.exists(): ...`, in
\* the order of Order, from the i-th on.  acc holds all_conversations,
\* all_code_snippets and whether a process() call raised.
Order == <<"chatgpt", "gemini", "grok", "antigravity">>

RECURSIVE process_all(_, _, _)
process_all(paths, i, acc) ==
    IF i > Len(Order) \/ acc.raised THEN acc
    ELSE LET platform == Order[i]
             path == paths[platform]
         IN IF path.kind # "export" THEN process_all(paths, i + 1, acc)
            ELSE LET processed(r) ==
                         IF r.raised THEN [acc EXCEPT !.raised = TRUE]
                         ELSE [all_conversations |->
                                   acc.all_conversations
                                   \o [k \in 1..Len(r.conversations) |->
                                          to_dict(r.conversations[k], k)],
                               all_code_snippets |->
                                   acc.all_code_snippets \o code_snippets(r.conversations),
                               raised |-> FALSE]
                 IN process_all(paths, i + 1,
                                processed(process_units(platform, path.units, 1, NewRun)))

\* ingest.py 107-117: the two loops that write to the store, as one list of
\* calls, from the i-th on.  The provider fails during call number
\* fail_call (0: it never fails).
RECURSIVE add_all(_, _, _, _, _, _, _)
add_all(st, m, google, items, i, fail_call, w) ==
    IF i > Len(items) \/ st.raised THEN st
    ELSE LET fail_at == IF i = fail_call THEN 1 ELSE 0
             added(r) == [store |-> r.store, raised |-> r.raised]
         IN add_all(added(IF items[i].what = "conversation"
                          THEN add_conversation(st.store, m, google, items[i].item,
                                                fail_at, w)
                          ELSE add_code_snippet(st.store, m, google, items[i].item,
                                                fail_at, w)),
                    m, google, items, i + 1, fail_call, w)

\* ingest.py 29-122.  st is the backend and the cache the new
\* ConversationVectorStore() finds.  Result: the store afterwards, whether
\* an exception left ingest_data, whether it printed its final report, the
\* ids of all_conversations and the length of all_code_snippets.
ingest_data(st, m, google, paths, reset_db, fail_call, w) ==
    LET st0 == [st EXCEPT !.collections = {}]
        st1 == IF reset_db THEN reset(st0) ELSE st0
        report(p, a) ==
            [store |-> IF a.raised THEN a.store
                       ELSE get_or_create_collection(
                                get_or_create_collection(a.store,
                                                         settings_conversations_collection),
                                settings_code_collection),
             raised |-> a.raised, completed |-> ~a.raised,
             conversation_ids |-> [k \in 1..Len(p.all_conversations) |->
                                      p.all_conversations[k].conversation_id],
             total_code_snippets |-> Len(p.all_code_snippets)]
        store_all(p) ==
            IF p.raised
            THEN [store |-> st1, raised |-> TRUE, completed |-> FALSE,
                  conversation_ids |-> <<>>, total_code_snippets |-> 0]
            ELSE report(p, add_all([store |-> st1, raised |-> FALSE], m, google,
                                   [k \in 1..Len(p.all_conversations) |->
                                       [what |-> "conversation",
                                        item |-> p.all_conversations[k]]]
                                   \o [k \in 1..Len(p.all_code_snippets) |->
                                          [what |-> "snippet",
                                           item |-> p.all_code_snippets[k]]],
                                   1, fail_call, w))
    IN store_all(process_all(paths, 1, [all_conversations |-> <<>>,
                                        all_code_snippets |-> <<>>, raised |-> FALSE]))

InitChunk ==
    /\ pc = "chunk_ready"
    /\ paragraphs \in SeqsOf(0..MaxParaTokens, 1, MaxParas)
    /\ chunk_size \in 1..MaxChunkArg
    /\ overlap \in 0..MaxOverlapArg
    /\ chunks = <<>>
    /\ EmbedIdle /\ StoreIdle /\ ProcIdle /\ SnipIdle

ChunkText ==
    /\ pc = "chunk_ready"
    /\ chunks' = chunk_text(paragraphs, chunk_size, overlap)
    /\ pc' = "chunked"
    /\ UNCHANGED <<paragraphs, chunk_size, overlap, embedVars, last, storeVars, procVars, snipVars>>

NextChunk == ChunkText
SpecChunk == InitChunk /\ [][NextChunk]_vars

(***************************************************************************)
(* The generator and the store in use: SpecEmbed                           *)
(***************************************************************************)
\* A cache directory the generator can find: each file is absent, corrupt,
\* or what _cache_embedding wrote for the text of that key.
CacheStates(m) ==
    { c \in [CacheKeys(m) -> {NoFile, CorruptFile} \cup
                              { [status |-> "ok", text_preview |-> t, embedding |-> Embed(m, t), model |-> m] :
                                  t \in Texts }] :
        \A t \in Texts :
            LET f == c[_get_cache_key(m, t)]
            IN f.status = "ok" => f.text_preview = t }

InitEmbed ==
    /\ pc = "embed"
    /\ ChunkIdle /\ ProcIdle /\ SnipIdle
    /\ model = settings_embedding_model
    /\ use_google \in BOOLEAN
    /\ cache \in CacheStates(model)
    /\ last = NoCall
    /\ StoreIdle

\* A call of generate_embeddings(texts) by a client of the generator.
GenerateEmbeddings ==
    /\ pc = "embed"
    /\ \E texts \in SeqsOf(Texts, 0, MaxTexts), fail_at \in 0..MaxTexts,
          wmode \in [Texts -> WriteModes] :
          \E r \in { generate_embeddings(cache, model, use_google, texts, TRUE,
                                          fail_at, wmode) } :
             /\ cache' = r.cache
             /\ last' = [op |-> "generate_embeddings",
                         texts |-> texts, wmode |-> wmode, raised |-> r.raised,
                         embeddings |-> r.embeddings, sent |-> r.sent,
                         events |-> r.events,
                         api_calls |-> r.api_calls,
                         provider_failed |-> r.provider_failed]
    /\ UNCHANGED <<pc, chunkVars, model, use_google, storeVars, procVars, snipVars>>

NextEmbed == GenerateEmbeddings
SpecEmbed == InitEmbed /\ [][NextEmbed]_vars

(***************************************************************************)
(* The store in use: SpecStore                                             *)
(***************************************************************************)
InitStore ==
    /\ pc = "store"
    /\ ChunkIdle /\ ProcIdle /\ SnipIdle
    /\ model = settings_embedding_model
    /\ use_google \in BOOLEAN
    /\ cache = EmptyCache(model)
    /\ last = NoCall
    /\ StoreIdle

\* The store after a call; the call touches nothing else.
StoreBecomes(store) ==
    /\ backend' = store.backend
    /\ collections' = store.collections
    /\ uuid_counter' = store.uuid_counter
    /\ cache' = store.cache
    /\ UNCHANGED <<chunkVars, model, use_google, procVars, snipVars>>

\* What the file system does with the cache writes of one store call.
StoreWriteModes == { [t \in Texts |-> w] : w \in WriteModes }

\* A call of add_documents(collection_name, texts, metadatas) without ids.
AddDocuments ==
    /\ pc = "store"
    /\ \E name \in CollectionNames, texts \in SeqsOf(Texts, 0, MaxTexts),
          fail_at \in 0..MaxTexts, wmode \in StoreWriteModes :
          /\ TotalRecords(backend) + Len(texts) <= MaxRecords
          /\ \E r \in { add_documents(Store, model, use_google, name, texts,
                                       [i \in 1..Len(texts) |-> [platform |-> "chatgpt"]],
                                       NoIds, fail_at, wmode) } :
                /\ StoreBecomes(r.store)
                /\ last' = [op |-> "add_documents",
                            texts |-> texts, raised |-> r.raised,
                            collection |-> name,
                            embeddings |-> r.gen.embeddings,
                            sent |-> r.gen.sent, api_calls |-> r.gen.api_calls,
                            provider_failed |-> r.gen.provider_failed]
    /\ UNCHANGED pc

NextStore == AddDocuments
SpecStore == InitStore /\ [][NextStore]_vars

(***************************************************************************)
(* add_documents with and without ids: SpecAdd                             *)
(*                                                                         *)
(* Two calls in a row on a store that starts empty.                        *)
(***************************************************************************)
InitAdd ==
    /\ pc = "add_ready"
    /\ ChunkIdle /\ ProcIdle /\ SnipIdle
    /\ model = settings_embedding_model
    /\ use_google \in BOOLEAN
    /\ cache \in { c \in CacheStates(model) :
                      \A k \in CacheKeys(model) : c[k] # CorruptFile }
    /\ last = NoCall
    /\ StoreIdle

\* One list longer than a batch.
LongTexts == [i \in 1..(batch_size + 1) |-> "a"]

\* The metadata of the i-th input.
MetadataOf(i) == [platform |-> "chatgpt", chunk_index |-> i - 1]

\* A call of add_documents(collection_name, texts, metadatas, ids): a short
\* list with or without ids (IdArgs: the ids of one call are distinct), or,
\* as the only call, the long list without ids, its text being cached.
AddDocumentsIds ==
    LET IdPool == { <<"id", 1>>, <<"id", 2>> }
        IdArgs(n) ==
            {NoIds} \cup { GivenIds(ids) : ids \in { q \in [1..n -> IdPool] :
                                                     \A a, b \in 1..n : q[a] = q[b] => a = b } }
    IN
    /\ pc \in {"add_ready", "add_again"}
    /\ \E name \in CollectionNames,
          texts \in SeqsOf(Texts, 0, MaxTexts) \cup {LongTexts},
          fail_at \in 0..MaxTexts, wmode \in StoreWriteModes :
          /\ texts = LongTexts =>
                pc = "add_ready" /\ _get_cached_embedding(cache, model, "a") # None
          /\ pc' = (IF pc = "add_ready" /\ texts # LongTexts THEN "add_again"
                    ELSE "add_done")
          /\ \E ids_arg \in (IF texts = LongTexts THEN {NoIds} ELSE IdArgs(Len(texts))) :
             \E r \in { add_documents(Store, model, use_google, name, texts,
                                       [i \in 1..Len(texts) |-> MetadataOf(i)],
                                       ids_arg, fail_at, wmode) } :
                /\ StoreBecomes(r.store)
                /\ last' = [op |-> "add_documents",
                            texts |-> texts, raised |-> r.raised,
                            collection |-> name,
                            ids_given |-> ids_arg.given, ids |-> r.ids,
                            batches |-> r.batches,
                            embeddings |-> r.gen.embeddings,
                            sent |-> r.gen.sent, api_calls |-> r.gen.api_calls,
                            provider_failed |-> r.gen.provider_failed]

NextAdd == AddDocumentsIds
SpecAdd == InitAdd /\ [][NextAdd]_vars

(***************************************************************************)
(* Properties of generate_embeddings and add_documents                     *)
(***************************************************************************)
\* C6: a successful generate_embeddings(texts) returns one vector per text,
\* the vector at position i being the embedding of texts[i]; no placeholder
\* is left, whatever the mix of cache hits and misses.
C6_OnePerInputInOrder ==
    (last.op = "generate_embeddings" /\ ~last.raised) =>
        /\ Len(last.embeddings) = Len(last.texts)
        /\ \A i \in 1..Len(last.texts) : last.embeddings[i] = Embed(model, last.texts[i])

\* A successful call whose second text was a cache miss and whose first text
\* was a cache hit.
C6_Witness ==
    /\ last.op = "generate_embeddings" /\ ~last.raised
    /\ Len(last.texts) = 2
    /\ last.texts[1] # last.texts[2]
    /\ last.sent = <<last.texts[2]>>

\* Two successive successful calls of generate_embeddings([text]) for the same text.
SameTextTwice ==
    /\ last.op = "generate_embeddings" /\ last'.op = "generate_embeddings"
    /\ Len(last.texts) = 1 /\ last'.texts = last.texts
    /\ ~last.raised /\ ~last'.raised

\* C7 as stated: generate_embeddings([text]) twice in a row issues exactly one
\* provider call in total, the second call being a pure cache hit, and both
\* calls return the same vector.
C7_OneProviderCall ==
    [][SameTextTwice =>
          /\ last.api_calls + last'.api_calls = 1
          /\ last'.api_calls = 0
          /\ last'.embeddings = last.embeddings]_vars

\* C7 amended: when the first call found no readable cache entry for the text
\* and left a readable one (its cache write succeeded), the two calls issue
\* exactly one provider call, the second is a pure cache hit and both return
\* the same vector.
C7_OneProviderCallWhenCached ==
    [][(/\ SameTextTwice
        /\ last.api_calls = 1
        /\ cache[_get_cache_key(model, last.texts[1])].status = "ok") =>
          /\ last.api_calls + last'.api_calls = 1
          /\ last'.api_calls = 0
          /\ last'.sent = <<>>
          /\ last'.embeddings = last.embeddings]_vars

\* The state between the two calls: the first call was a miss, it succeeded
\* and its vector is in the cache.
C7_Witness ==
    /\ last.op = "generate_embeddings" /\ ~last.raised
    /\ Len(last.texts) = 1
    /\ last.api_calls = 1
    /\ cache[_get_cache_key(model, last.texts[1])].status = "ok"

\* C8: when the provider fails on a cache miss, generate_embeddings raises and
\* returns no embeddings at all, and an add_documents call built on it writes
\* no record to any collection.
C8_AllOrNothing ==
    [][(last'.op = "add_documents" /\ last'.provider_failed) =>
          /\ last'.raised
          /\ last'.embeddings = None
          /\ \A n \in CollectionNames : RecordsOf(backend', n) = RecordsOf(backend, n)]_vars

\* add_documents on a collection that holds a record fails on its second
\* cache miss, after the first vector was obtained.
C8_Witness ==
    /\ last.op = "add_documents" /\ last.provider_failed
    /\ use_google
    /\ Len(last.sent) = 2
    /\ RecordsOf(backend, last.collection) # <<>>
    /\ last.collection \in collections

\* The record add_documents builds from its i-th input.
InputRecord(i) ==
    [id |-> last'.ids[i], document |-> last'.texts[i],
     embedding |-> last'.embeddings[i], metadata |-> MetadataOf(i)]

\* Lines 82-94: the batches follow one another, hold at most batch_size
\* inputs each and together hold every input.
ConsecutiveBatches(batches, n) ==
    /\ (n = 0) = (batches = <<>>)
    /\ \A k \in 1..Len(batches) :
          /\ batches[k].first = (IF k = 1 THEN 1 ELSE batches[k - 1].last + 1)
          /\ batches[k].first <= batches[k].last
          /\ batches[k].last - batches[k].first + 1 <= batch_size
    /\ n > 0 => batches[Len(batches)].last = n

\* C20: a successful add_documents(collection, texts, metadatas, ids?) writes
\* every input exactly once, in input order, in consecutive batches of at
\* most 100, each record pairing texts[i] with embeddings[i], metadatas[i] and
\* ids[i]; when ids are omitted fresh ids are generated, so each such call
\* raises the collection count by len(texts).
C20_EveryInputWritten ==
    [][(last'.op = "add_documents" /\ ~last'.raised) =>
          LET before == RecordsOf(backend, last'.collection)
              after == RecordsOf(backend', last'.collection)
              n == Len(last'.texts)
          IN /\ after = before \o [i \in 1..n |-> InputRecord(i)]
             /\ \A i \in 1..n : last'.embeddings[i] = Embed(model, last'.texts[i])
             /\ ConsecutiveBatches(last'.batches, n)
             /\ ~last'.ids_given => Len(after) = Len(before) + n
      ]_vars

\* C20 amended: the same for the inputs whose id is not yet in the
\* collection; an input whose id is already there (which only happens with
\* ids given by the caller) is not written.
C20_EveryNewInputWritten ==
    [][(last'.op = "add_documents" /\ ~last'.raised) =>
          LET before == RecordsOf(backend, last'.collection)
              after == RecordsOf(backend', last'.collection)
              n == Len(last'.texts)
              known(i) == \E k \in 1..Len(before) : before[k].id = last'.ids[i]
          IN /\ after = before \o SelectSeq([i \in 1..n |-> InputRecord(i)],
                                            LAMBDA r : \A k \in 1..Len(before) :
                                                          before[k].id # r.id)
             /\ \A i \in 1..n : last'.embeddings[i] = Embed(model, last'.texts[i])
             /\ ConsecutiveBatches(last'.batches, n)
             /\ ~last'.ids_given =>
                   /\ \A i \in 1..n : ~known(i)
                   /\ Len(after) = Len(before) + n
      ]_vars

\* add_documents with two ids given by the caller, the first of them already
\* in the collection: one record is written, after the one that was there.
C20_Witness ==
    /\ last.op = "add_documents" /\ ~last.raised
    /\ last.ids_given /\ Len(last.texts) = 2
    /\ Len(RecordsOf(backend, last.collection)) = 2
    /\ RecordsOf(backend, last.collection)[1].id = last.ids[1]
    /\ RecordsOf(backend, last.collection)[2].id = last.ids[2]
    /\ RecordsOf(backend, last.collection)[1].document # last.texts[1]

\* The positions of the texts that have no readable cache entry when the
\* call starts.
MissesAtEntry(texts) ==
    SelectSeq([i \in 1..Len(texts) |-> i],
              LAMBDA i : _get_cached_embedding(cache, model, texts[i]) = None)

\* What C19 and its amendment share, for one call of generate_embeddings
\* (`cache` is the cache when the call starts, last' the outcome): the
\* provider is never asked for a text that has a readable cache entry; a call
\* that returns asked for exactly the texts without one; when every text is
\* cached the call returns without contacting the provider; the vectors
\* obtained stand in the output at their original positions.
OnlyMissesSent ==
    LET texts == last'.texts
        misses == MissesAtEntry(texts)
    IN /\ \A k \in 1..Len(last'.sent) :
             _get_cached_embedding(cache, model, last'.sent[k]) = None
       /\ ~last'.raised =>
             /\ last'.sent = [k \in 1..Len(misses) |-> texts[misses[k]]]
             /\ \A k \in 1..Len(misses) :
                   last'.embeddings[misses[k]] = Embed(model, texts[misses[k]])
       /\ misses = <<>> => ~last'.raised /\ last'.api_calls = 0

\* Position of the event (ev, idx) in the events of the last call, 0 if absent.
EventAt(events, ev, idx) ==
    IF \E k \in 1..Len(events) : events[k] = Event(ev, idx)
    THEN CHOOSE k \in 1..Len(events) : events[k] = Event(ev, idx)
    ELSE 0

C3_ChunkWithinBudget ==
    pc = "chunked" =>
        \A i \in 1..Len(chunks) :
            \/ ChunkTokens(paragraphs, chunks[i].paras) <= chunk_size
            \/ Len(chunks[i].paras) = 1

\* C4: the paragraphs carried over into chunk i+1 are a contiguous suffix of
\* chunk i, in order, of at most T = overlap tokens (T = 0 included).
C4_OverlapBound ==
    pc = "chunked" =>
        \A i \in 1..(Len(chunks) - 1) :
            LET prev == chunks[i].paras
                c == chunks[i + 1].carried
                pre == SubSeq(chunks[i + 1].paras, 1, c)
            IN /\ c <= Len(prev)
               /\ pre = SubSeq(prev, Len(prev) - c + 1, Len(prev))
               /\ ChunkTokens(paragraphs, pre) <= overlap

\* The paragraphs of the chunks with each carried-over prefix removed.
DistinctContent ==
    Concat([i \in 1..Len(chunks) |->
              SubSeq(chunks[i].paras, chunks[i].carried + 1, Len(chunks[i].paras))])

\* C5: removing the carried-over prefix of every chunk and concatenating the
\* rest reconstructs the original paragraph sequence, each paragraph once.
C5_ChunkLossless ==
    pc = "chunked" =>
        /\ chunks[1].carried = 0
        /\ DistinctContent = [p \in 1..Len(paragraphs) |-> p]

\* A text cut into three chunks, the later ones starting with carried paragraphs.
C5_Witness ==
    /\ pc = "chunked"
    /\ Len(chunks) >= 3
    /\ chunks[2].carried >= 1

(***************************************************************************)
(* The retriever at work: SpecRank                                         *)
(*                                                                         *)
(* A retriever is opened on a persisted store whose conversations          *)
(* collection holds up to MaxStored chunks, and a client makes one search. *)
(* The chunks differ by their text, platform and created_at; chunks of the *)
(* same kind are stored next to each other.                                *)
(***************************************************************************)
\* The chunk of kind k (0 .. 11) stored as the i-th record: kinds differ by
\* document, platform and created_at.
StoredRecord(m, k, i) ==
    LET document == <<"a", "b">>[(k % 2) + 1]
    IN [id |-> uuid4(i), document |-> document, embedding |-> Embed(m, document),
        metadata |-> [platform |-> <<"chatgpt", "gemini">>[((k \div 2) % 2) + 1],
                      title |-> "t",
                      created_at |->
                          << CreatedAt(400), NoCreatedAt, CreatedAt(-1) >>[(k \div 4) + 1]]]

\* The non-decreasing sequences of len kinds taken in lo..hi.
RECURSIVE KindSeqsIn(_, _, _)
KindSeqsIn(len, lo, hi) ==
    IF len = 0 THEN { <<>> }
    ELSE UNION { { <<k>> \o s : s \in KindSeqsIn(len - 1, k, hi) } : k \in lo..hi }

\* The conversations collections of at most n chunks of the kinds 0..hi.
StoredCollections(m, hi, n) ==
    { [i \in 1..Len(s) |-> StoredRecord(m, s[i], i)] :
        s \in UNION { KindSeqsIn(len, 0, hi) : len \in 0..n } }

InitRank ==
    /\ pc = "rank_ready"
    /\ ChunkIdle /\ ProcIdle /\ SnipIdle
    /\ model = settings_embedding_model
    /\ use_google = FALSE
    /\ cache = EmptyCache(model)
    /\ last = NoCall
    /\ \E records \in StoredCollections(model, 11, MaxStored) :
          backend = [n \in CollectionNames |->
                        IF n = settings_conversations_collection
                        THEN [exists |-> TRUE, records |-> records]
                        ELSE NoCollection]
    /\ collections = {}
    /\ uuid_counter \in {TotalRecords(backend)}

\* A call of search_conversations(query, n_results, platform_filter).
SearchConversations ==
    /\ pc \in {"rank_ready", "read_ready"}
    /\ pc' = IF pc = "rank_ready" THEN "searched" ELSE "read_done"
    /\ \E query_text \in Texts, n_results \in 0..MaxN,
          platform_filter \in {"", "chatgpt"},
          fail_at \in 0..1, wmode \in StoreWriteModes :
          \E r \in { search_conversations(Store, model, use_google, query_text, n_results,
                                          platform_filter, fail_at, wmode) } :
             /\ StoreBecomes(r.store)
             /\ last' = [op |-> "search_conversations", n_results |-> n_results,
                         platform_filter |-> platform_filter, raised |-> r.raised,
                         requested |-> r.requested, distances |-> r.distances,
                         candidates |-> r.candidates,
                         reranked |-> r.reranked, results |-> r.results]

NextRank == SearchConversations
SpecRank == InitRank /\ [][NextRank]_vars

(***************************************************************************)
(* Properties of the retriever                                             *)
(***************************************************************************)
Searched == last.op = "search_conversations" /\ ~last.raised

\* The entry of the re-ranked list that stems from candidate c.
RerankedOf(c) ==
    CHOOSE r \in { last.reranked[i] : i \in 1..Len(last.reranked) } : r.id = c.id

\* C9: the adjusted score of every candidate passed through re-ranking lies
\* between 0.7 * raw score and raw score (the interval [0.7 * raw, raw], its
\* end points taken in the other order for a negative raw score), whatever
\* the created_at timestamp (old, recent or future): the recency tilt never
\* changes a score by more than 30%.
C9_AdjustedWithinTilt ==
    Searched =>
        \A i \in 1..Len(last.candidates) :
            LET raw == last.candidates[i].score
                adjusted == RerankedOf(last.candidates[i]).score
            IN /\ Min(7 * raw, 10 * raw) <= 10 * adjusted
               /\ 10 * adjusted <= Max(7 * raw, 10 * raw)

NonIncreasing(results) ==
    \A i \in 1..(Len(results) - 1) : results[i].score >= results[i + 1].score

SearchOutcome(n) ==
    /\ last.requested = 2 * n
    /\ Len(last.results) = Min(n, Len(last.candidates))
    /\ { last.results[i].id : i \in 1..Len(last.results) }
           \subseteq { last.candidates[i].id : i \in 1..Len(last.candidates) }
    /\ NonIncreasing(last.results)
    /\ \A i \in 1..Len(last.results) : \A j \in 1..Len(last.reranked) :
           j > Len(last.results) => last.results[i].score >= last.reranked[j].score

\* C10 as stated: search_conversations(query, n) asks the store for 2n
\* candidates, re-ranks them and returns exactly min(n, number of candidates)
\* results, the best by adjusted score, in non-increasing order of it.
C10_TopNOfTwiceN ==
    Searched => SearchOutcome(last.n_results)

\* C10 amended: the same for n >= 1; a call with n = 0, or without n, is
\* served as a call with n = settings.top_k.
C10_TopNOfTwiceNOrDefault ==
    Searched =>
        SearchOutcome(IF last.n_results >= 1 THEN last.n_results ELSE settings_top_k)

\* A search with n = 2 on a store with five matching chunks: four candidates
\* come back, re-ranking moves the first one down, and two results are returned.
C10_Witness ==
    /\ Searched
    /\ last.n_results = 2
    /\ Len(RecordsOf(backend, settings_conversations_collection)) = 5
    /\ Len(last.candidates) = 4
    /\ Len(last.results) = 2
    /\ last.results[1].id # last.candidates[1].id

(***************************************************************************)
(* The query operations at work: SpecRead                                  *)
(*                                                                         *)
(* A retriever is opened on a persisted store with a few conversation      *)
(* chunks and code snippets, and a client makes one call of a query        *)
(* operation.                                                              *)
(***************************************************************************)
MaxReadStored == 2       \* records in the conversations collection
MaxCodeStored == 2       \* records in the code collection
MaxTokens == 12          \* the max_tokens argument

\* StoredSnippet: the code snippet of kind k (0 .. 3) stored as the i-th
\* record of its collection.
\* Each collection was never created, is empty, or has records.
\* The conversation chunks are older than a year or without created_at; the
\* cache is empty or that of a generator that embedded every text before.
InitRead ==
    /\ pc = "read_ready"
    /\ ChunkIdle /\ ProcIdle /\ SnipIdle
    /\ model = settings_embedding_model
    /\ use_google = FALSE
    /\ LET FullCache ==
               [k \in CacheKeys(model) |->
                   CHOOSE f \in { _cache_embedding(EmptyCache(model), model, t,
                                                   Embed(model, t), "ok")[k] : t \in Texts } :
                       f.status = "ok"]
       IN cache \in { EmptyCache(model), FullCache }
    /\ last = NoCall
    /\ LET StoredSnippet(m, k, i) ==
               LET document == <<"a", "b">>[(k % 2) + 1]
               IN [id |-> uuid4(MaxReadStored + i), document |-> document,
                   embedding |-> Embed(m, document),
                   metadata |-> [language |-> <<"python", "unknown">>[(k \div 2) + 1],
                                 platform |-> "chatgpt"]]
           CollectionStates(recordSeqs) ==
               { NoCollection } \cup { [exists |-> TRUE, records |-> r] : r \in recordSeqs }
           ReadSnippets ==
               { [i \in 1..Len(s) |-> StoredSnippet(model, s[i], i)] :
                   s \in UNION { KindSeqsIn(len, 0, 3) : len \in 0..MaxCodeStored } }
       IN \E conv \in CollectionStates(StoredCollections(model, 7, MaxReadStored)),
             code \in CollectionStates(ReadSnippets) :
             backend = [n \in CollectionNames |->
                           IF n = settings_conversations_collection THEN conv ELSE code]
    /\ collections = {}
    /\ uuid_counter = MaxReadStored + MaxCodeStored

\* What the provider and the file system do during one query call: the
\* provider answers and the cache write goes one of its ways, or the
\* provider fails.
ReadEnvironments ==
    { [fail_at |-> 0, wmode |-> w] : w \in StoreWriteModes }
    \cup { [fail_at |-> 1, wmode |-> [t \in Texts |-> "ok"]] }

\* A call of get_context_for_query(query, max_tokens, platform_filter).
GetContextForQuery ==
    /\ pc = "read_ready"
    /\ pc' = "read_done"
    /\ \E query_text \in Texts, max_tokens \in 0..MaxTokens,
          platform_filter \in {"", "chatgpt"}, env \in ReadEnvironments :
          \E r \in { get_context_for_query(Store, model, use_google, query_text,
                         max_tokens, platform_filter, env.fail_at, env.wmode) } :
             /\ StoreBecomes(r.store)
             /\ last' = [op |-> "get_context_for_query", max_tokens |-> max_tokens,
                         raised |-> r.raised, results |-> r.results,
                         context_parts |-> r.context_parts, context |-> r.context]

\* A call of search_code(query, language_filter, n_results).
SearchCode ==
    /\ pc = "read_ready"
    /\ pc' = "read_done"
    /\ \E query_text \in Texts, language_filter \in {"", "python"},
          n_results \in 0..MaxN, env \in ReadEnvironments :
          \E r \in { search_code(Store, model, use_google, query_text, language_filter,
                                  n_results, env.fail_at, env.wmode) } :
             /\ StoreBecomes(r.store)
             /\ last' = [op |-> "search_code", n_results |-> n_results,
                         language_filter |-> language_filter, raised |-> r.raised,
                         requested |-> r.requested, distances |-> r.distances,
                         ids |-> r.ids, results |-> r.results]

NextRead == GetContextForQuery \/ SearchCode \/ SearchConversations
SpecRead == InitRead /\ [][NextRead]_vars

(***************************************************************************)
(* Properties of the query operations                                      *)
(***************************************************************************)
GotContext == last.op = "get_context_for_query" /\ ~last.raised

\* C11: the string returned by get_context_for_query, the joined blocks with
\* their separators or the sentinel, has an estimated token size (its
\* character length divided by 4) of at most max_tokens, for every
\* max_tokens >= 0.
C11_ContextWithinBudget ==
    GotContext => Len(last.context) \div 4 <= last.max_tokens

\* The token estimate of the first k blocks of the ranked results.
PrefixTokens(results, k) ==
    SumSeq([i \in 1..k |-> Len(format_block(results[i])) \div 4])

\* C12: get_context_for_query includes a prefix of the ranked results (at
\* most 10): the blocks before the first one that would push the running
\* estimate past max_tokens, and no later block; it returns the sentinel
\* exactly when no block was included, that is when there are no results or
\* the first block alone exceeds the budget.
C12_PrefixUntilFirstOverflow ==
    GotContext =>
        LET results == last.results
            k == Len(last.context_parts)
        IN /\ Len(results) <= 10 /\ k <= Len(results)
           /\ last.context_parts = [i \in 1..k |-> format_block(results[i])]
           /\ PrefixTokens(results, k) <= last.max_tokens
           /\ k < Len(results) => PrefixTokens(results, k + 1) > last.max_tokens
           /\ (last.context = NoContext) <=> (k = 0)
           /\ (k = 0) <=> (results = <<>> \/ PrefixTokens(results, 1) > last.max_tokens)
           /\ k > 0 => last.context = join("\n---\n\n", last.context_parts)

\* The first block does not fit, the second one alone would: the sentinel is
\* returned.
C12_Witness ==
    /\ GotContext
    /\ Len(last.results) = 2
    /\ PrefixTokens(last.results, 1) > last.max_tokens
    /\ Len(format_block(last.results[2])) \div 4 <= last.max_tokens
    /\ last.context = NoContext

SearchedCode == last.op = "search_code" /\ ~last.raised

\* Scores are in units of 1/36500 and distances in tenths.
IsOneMinusDistance(score, distance) == 10 * score = 36500 * (10 - distance)

ScoresFromDistances(n) ==
    /\ Searched =>
          /\ Len(last.candidates) = Len(last.distances)
          /\ \A i \in 1..Len(last.candidates) :
                IsOneMinusDistance(last.candidates[i].score, last.distances[i])
    /\ SearchedCode =>
          /\ last.requested = n
          /\ Len(last.results) = Len(last.distances)
          /\ \A i \in 1..Len(last.results) :
                /\ IsOneMinusDistance(last.results[i].score, last.distances[i])
                /\ last.results[i].id = last.ids[i]
          /\ \A i \in 1..(Len(last.distances) - 1) :
                last.distances[i] <= last.distances[i + 1]
          /\ NonIncreasing(last.results)

\* C13 as stated: every result of search_code, and every candidate of
\* search_conversations before re-ranking, carries score = 1 - distance for
\* the distance the store reported for that record; search_code requests n
\* (not 2n) records and returns them in the store's ascending-distance order
\* with no re-ranking, so its scores are non-increasing.
C13_ScoreIsOneMinusDistance ==
    ScoresFromDistances(last.n_results)

\* C13 amended: the same for n >= 1; a call of search_code with n = 0, or
\* without n, requests settings.top_k records.
C13_ScoreIsOneMinusDistanceOrDefault ==
    ScoresFromDistances(IF last.n_results >= 1 THEN last.n_results ELSE settings_top_k)

\* search_code with n = 2 returns two snippets at different distances.
C13_Witness ==
    /\ SearchedCode
    /\ last.n_results = 2
    /\ Len(last.results) = 2
    /\ last.distances[1] < last.distances[2]

\* C16: the query operations (query, search_conversations, search_code,
\* get_context_for_query) are read-only: a call leaves the set of
\* collections, the records of every collection and the entries of the
\* embedding cache as they were, also when the queried collection does not
\* exist yet or the query text was never embedded.
C16_QueriesReadOnly ==
    [][last'.op \in {"get_context_for_query", "search_code", "search_conversations"}
          => backend' = backend /\ cache' = cache]_vars

(***************************************************************************)
(* The processors at work: SpecProc                                        *)
(*                                                                         *)
(* One processor object runs process() on a source; each step is one       *)
(* iteration of its loop over the export units.  `expected` is the same    *)
(* run fed with the well-formed units only.                                *)
(***************************************************************************)
\* The export units a source of the platform can hold: records of
\* conversations.json, .html and .json files, conversation directories.
ExportUnits(kind) ==
    LET ItemSeqs(S) == SeqsOf(S, 0, MaxItems)
        ChatGPTNodes ==
            { [has_message |-> FALSE, parts |-> "", create_time |-> "missing"],
              [has_message |-> TRUE, parts |-> "", create_time |-> "t1"],
              [has_message |-> TRUE, parts |-> "text", create_time |-> "t1"],
              [has_message |-> TRUE, parts |-> "text", create_time |-> "t2"] }
        HtmlContainers ==
            { [text |-> "short", cls |-> "none"], [text |-> "text", cls |-> "none"],
              [text |-> "text", cls |-> "assistant"] }
        ContentKinds == {"", "text", "nonstr"}
    IN CASE kind = "chatgpt" ->
              { [kind |-> "bad", mapping |-> <<>>] }
              \cup { [kind |-> "ok", mapping |-> m] : m \in ItemSeqs(ChatGPTNodes) }
         [] kind = "gemini_html" ->
              { [format |-> "html", kind |-> "bad", containers |-> <<>>] }
              \cup { [format |-> "html", kind |-> "ok", containers |-> c] :
                       c \in ItemSeqs(HtmlContainers) }
         [] kind = "gemini_json" ->
              { [format |-> "json", kind |-> k, messages |-> <<>>] : k \in {"bad", "skip"} }
              \cup { [format |-> "json", kind |-> "ok", messages |-> m] :
                       m \in ItemSeqs(ContentKinds) }
         [] kind = "grok" ->
              { [kind |-> k, messages |-> <<>>, has_pair |-> FALSE] : k \in {"bad", "skip"} }
              \cup { [kind |-> "ok", messages |-> m, has_pair |-> b] :
                       m \in ItemSeqs(ContentKinds), b \in BOOLEAN }
         [] kind = "antigravity" ->
              { [kind |-> "skip", task_md |-> "absent", plan_md |-> "absent",
                 walkthrough |-> "absent", overview |-> "absent", task_logs |-> 0] }
              \cup { [kind |-> "dir", task_md |-> t, plan_md |-> p, walkthrough |-> w,
                      overview |-> o, task_logs |-> n] :
                       t \in {"absent", "heading", "noheading", "unreadable"},
                       p \in {"absent", "heading"},
                       w \in {"absent", "text"},
                       o \in {"absent", "user_only", "pair"},
                       n \in 0..(MaxItems - 2) }

\* A well-formed unit: it parses, at least one message can be rebuilt from
\* it, and none of its messages is malformed.
WellFormed(kind, u) ==
    LET ValidNode(n) == n.has_message /\ n.parts = "text" /\ n.create_time # "null"
        WellFormedMessages(m) ==
            /\ \E i \in 1..Len(m) : m[i] = "text"
            /\ \A i \in 1..Len(m) : m[i] # "nonstr"
    IN CASE kind = "chatgpt" ->
              /\ u.kind = "ok"
              /\ \E i \in 1..Len(u.mapping) : ValidNode(u.mapping[i])
              /\ \A i \in 1..Len(u.mapping) : u.mapping[i].create_time # "null"
         [] kind = "gemini_html" ->
              u.kind = "ok" /\ \E i \in 1..Len(u.containers) : u.containers[i].text = "text"
         [] kind = "gemini_json" ->
              u.kind = "ok" /\ WellFormedMessages(u.messages)
         [] kind = "grok" ->
              /\ u.kind = "ok"
              /\ \/ WellFormedMessages(u.messages)
                 \/ (\A i \in 1..Len(u.messages) : u.messages[i] = "") /\ u.has_pair
         [] kind = "antigravity" ->
              /\ u.kind = "dir"
              /\ u.task_md # "unreadable" /\ u.plan_md # "unreadable"
              /\ \/ u.overview # "absent" \/ u.task_logs > 0
                 \/ u.task_md \in {"heading", "noheading"}
                 \/ u.plan_md \in {"heading", "noheading"}
                 \/ u.walkthrough = "text"

\* The source exists ("proc") or input_path does not exist ("proc_missing").
InitProc ==
    /\ pc \in {"proc", "proc_missing"}
    /\ processor \in {"chatgpt", "gemini", "grok", "antigravity"}
    /\ run = NewRun
    /\ expected = NewRun
    /\ n_units = 0
    /\ n_wellformed = 0
    /\ ChunkIdle /\ EmbedIdle /\ StoreIdle /\ SnipIdle

\* One loop iteration: the run moves on; the reference run takes the unit
\* only when it is well-formed.  An exception that leaves process() ends it.
Feed(run_next, expected_next, wellformed) ==
    /\ n_units < MaxUnits
    /\ ~run.raised
    /\ run' = run_next
    /\ expected' = IF wellformed THEN expected_next ELSE expected
    /\ n_units' = n_units + 1
    /\ n_wellformed' = n_wellformed + (IF wellformed THEN 1 ELSE 0)
    /\ UNCHANGED <<processor, chunkVars, embedVars, last, storeVars, snipVars>>

ChatGPTRecord ==
    /\ pc = "proc" /\ processor = "chatgpt"
    /\ \E r \in ExportUnits("chatgpt") :
          Feed(chatgpt_process_unit(run, r), chatgpt_process_unit(expected, r),
               WellFormed("chatgpt", r))
    /\ pc' = pc

GeminiHtmlFile ==
    /\ pc = "proc" /\ processor = "gemini"
    /\ \E f \in ExportUnits("gemini_html") :
          Feed(gemini_process_unit(run, f), gemini_process_unit(expected, f),
               WellFormed("gemini_html", f))
    /\ pc' = pc

\* The .json files are processed after all the .html files.
GeminiJsonFile ==
    /\ pc \in {"proc", "proc_json"} /\ processor = "gemini"
    /\ \E f \in ExportUnits("gemini_json") :
          Feed(gemini_process_unit(run, f), gemini_process_unit(expected, f),
               WellFormed("gemini_json", f))
    /\ pc' = "proc_json"

GrokFile ==
    /\ pc = "proc" /\ processor = "grok"
    /\ \E f \in ExportUnits("grok") :
          Feed(grok_process_unit(run, f), grok_process_unit(expected, f),
               WellFormed("grok", f))
    /\ pc' = pc

AntigravityDir ==
    /\ pc = "proc" /\ processor = "antigravity"
    /\ \E d \in ExportUnits("antigravity") :
          Feed(antigravity_process_unit(run, d), antigravity_process_unit(expected, d),
               WellFormed("antigravity", d))
    /\ pc' = pc

\* process(input_path) on a path that does not exist.
ProcessMissingPath ==
    /\ pc = "proc_missing"
    /\ pc' = "proc_missing_done"
    /\ run' = process_missing_path(processor)
    /\ UNCHANGED <<processor, expected, n_units, n_wellformed,
                   chunkVars, embedVars, last, storeVars, snipVars>>

NextProc ==
    \/ ChatGPTRecord \/ GeminiHtmlFile \/ GeminiJsonFile \/ GrokFile \/ AntigravityDir
    \/ ProcessMissingPath
SpecProc == InitProc /\ [][NextProc]_vars

(***************************************************************************)
(* Properties of the processors                                            *)
(***************************************************************************)
\* C1: every Conversation returned by process() holds at least one Message:
\* an export unit from which no message is rebuilt yields no Conversation.
C1_NoEmptyConversation ==
    \A i \in 1..Len(run.conversations) : Len(run.conversations[i].messages) >= 1

\* C2: with k well-formed units mixed with malformed ones, process() returns
\* exactly k Conversations, the same as if the malformed units were absent,
\* and never raises to its caller.
C2_MalformedUnitsSkipped ==
    pc \in {"proc", "proc_json"} =>
        /\ ~run.raised
        /\ Len(run.conversations) = n_wellformed
        /\ run.conversations = expected.conversations

\* C14: for each of the four processors, process(input_path) on a file or
\* directory that does not exist returns an empty sequence of Conversations
\* and does not raise.
C14_MissingPathGivesEmpty ==
    pc = "proc_missing_done" => ~run.raised /\ run.conversations = <<>>


(***************************************************************************)
(* The snippet extractor at work: SpecSnip                                 *)
(*                                                                         *)
(* A message is written as a sequence of segments: a line of prose, or a   *)
(* fenced code region with its opening-fence tag ("" when there is none).  *)
(* The tag "c++" stands for a tag that holds a character outside \w.       *)
(***************************************************************************)
MaxMessages == 2         \* messages per conversation
MaxSegments == 2         \* segments per message

\* The content of a message made of segments.  The text of a segment is the
\* line "text", or the fence with its tag, the line "code", and the closing
\* fence on a line of its own.
ContentOf(segments) ==
    LET TagTokens(tag) ==
            CASE tag = "" -> <<>>
              [] tag = "c++" -> <<"c", "+", "+">>
              [] OTHER -> <<tag>>
        SegmentTokens(seg) ==
            IF seg.kind = "prose" THEN <<"text", NL>>
            ELSE <<FENCE>> \o TagTokens(seg.tag) \o <<NL, "code", NL, FENCE, NL>>
    IN Concat([k \in 1..Len(segments) |-> SegmentTokens(segments[k])])

\* The fenced regions of a conversation, by message and then by position.
RegionsOf(conv) ==
    Concat([i \in 1..Len(conv.messages) |->
               SelectSeq(conv.messages[i], LAMBDA seg : seg.kind = "block")])

InitSnip ==
    /\ pc = "snip_ready"
    /\ LET Segments ==
               { [kind |-> "prose", tag |-> ""] }
               \cup { [kind |-> "block", tag |-> tag] : tag \in {"", "python", "c++"} }
       IN snip_conv \in
             { [none |-> FALSE, conversation_id |-> "c1", platform |-> "chatgpt",
                title |-> "t", messages |-> m] :
                 m \in SeqsOf(SeqsOf(Segments, 0, MaxSegments), 1, MaxMessages) }
    /\ snippets = <<>>
    /\ ChunkIdle /\ EmbedIdle /\ StoreIdle /\ ProcIdle

\* A call of extract_code_snippets(conversation).
ExtractCodeSnippets ==
    /\ pc = "snip_ready"
    /\ pc' = "snip_done"
    /\ snippets' = extract_code_snippets(
                       [snip_conv EXCEPT !.messages =
                           [i \in 1..Len(@) |-> ContentOf(@[i])]])
    /\ UNCHANGED <<snip_conv, chunkVars, embedVars, last, storeVars, procVars>>

NextSnip == ExtractCodeSnippets
SpecSnip == InitSnip /\ [][NextSnip]_vars

\* C18: extract_code_snippets returns exactly one snippet per fenced region
\* of the conversation, in message order and then in order of position; the
\* language of a snippet is the tag of its region, "unknown" when the region
\* has no tag, and its context is the title of the conversation.
C18_OneSnippetPerRegion ==
    pc = "snip_done" =>
        LET regions == RegionsOf(snip_conv)
        IN /\ Len(snippets) = Len(regions)
           /\ \A k \in 1..Len(regions) :
                 /\ snippets[k].language =
                        (IF regions[k].tag = "" THEN "unknown" ELSE regions[k].tag)
                 /\ snippets[k].context = snip_conv.title


(***************************************************************************)
(* Ingestion: SpecIngest                                                   *)
(*                                                                         *)
(* A ConversationVectorStore over a backend that starts empty receives     *)
(* add_conversation and reset calls; ingest_data then runs once on the     *)
(* same backend and cache, when at most one conversation is in it.  The    *)
(* cache writes succeed.  last.ingested is the set of the conversations    *)
(* added since the last reset.                                             *)
(***************************************************************************)
MaxIngestMessages == 2   \* messages of a conversation given to add_conversation
MaxFailCall == 2         \* store calls of ingest_data before the provider fails

\* The export of each platform: not given, given but missing, or one of a
\* few exports.
IngestPaths ==
    LET OkRecord(content) ==
            [kind |-> "ok",
             mapping |-> <<[has_message |-> TRUE, parts |-> content, create_time |-> "t1"]>>]
        JsonFile(content) == [format |-> "json", kind |-> "ok", messages |-> <<content>>]
    IN
    [chatgpt : {NoPath, MissingPath, Export(<<OkRecord("text")>>),
                Export(<<[kind |-> "bad", mapping |-> <<>>], OkRecord("code")>>)},
     gemini : {NoPath, MissingPath, Export(<<JsonFile("text")>>),
               Export(<<JsonFile("nonstr")>>)},
     grok : {NoPath,
             Export(<<[kind |-> "ok", messages |-> <<"text">>, has_pair |-> FALSE]>>)},
     antigravity : {NoPath,
                    Export(<<[kind |-> "dir", task_md |-> "absent", plan_md |-> "absent",
                              walkthrough |-> "absent", overview |-> "pair",
                              task_logs |-> 0]>>)}]

InitIngest ==
    /\ pc = "ingest_ready"
    /\ ChunkIdle /\ ProcIdle /\ SnipIdle
    /\ model = settings_embedding_model
    /\ use_google \in BOOLEAN
    /\ cache = EmptyCache(model)
    /\ last = [op |-> "none", ingested |-> {}]
    /\ StoreIdle

\* A call of add_conversation(conversation).
AddConversation ==
    /\ pc = "ingest_ready"
    /\ \E conv \in { [conversation_id |-> id, platform |-> "chatgpt", title |-> "t",
                       messages |-> [i \in 1..n |-> Message("user", "text", "None", i)]] :
                        id \in {"c1", "c2"}, n \in 1..MaxIngestMessages },
          fail_at \in 0..1 :
          \E r \in { add_conversation(Store, model, use_google, conv, fail_at, "ok") } :
             /\ StoreBecomes(r.store)
             /\ last' = [op |-> "add_conversation", conversation |-> conv,
                         raised |-> r.raised, chunk_ids |-> r.chunk_ids,
                         reingested |-> conv \in last.ingested,
                         ingested |-> IF r.raised THEN last.ingested
                                      ELSE last.ingested \cup {conv}]
    /\ UNCHANGED pc

\* A call of reset().
Reset ==
    /\ pc = "ingest_ready"
    /\ StoreBecomes(reset(Store))
    /\ last' = [op |-> "reset", ingested |-> {}]
    /\ UNCHANGED pc

\* A run of ingest_data(chatgpt_path, gemini_path, grok_path,
\* antigravity_path, reset_db).
IngestData ==
    /\ pc = "ingest_ready"
    /\ Cardinality(last.ingested) <= 1
    /\ pc' = "ingest_ended"
    /\ \E paths \in IngestPaths, reset_db \in BOOLEAN, fail_call \in 0..MaxFailCall :
          \E r \in { ingest_data(Store, model, use_google, paths, reset_db, fail_call, "ok") } :
             /\ StoreBecomes(r.store)
             /\ last' = [op |-> "ingest_data", paths |-> paths,
                         raised |-> r.raised, completed |-> r.completed,
                         conversation_ids |-> r.conversation_ids,
                         total_code_snippets |-> r.total_code_snippets,
                         ingested |-> {}]

NextIngest == AddConversation \/ Reset \/ IngestData
SpecIngest == InitIngest /\ [][NextIngest]_vars

StoredIds(b, name) == { RecordsOf(b, name)[k].id : k \in 1..Len(RecordsOf(b, name)) }

\* C15: add_conversation called a second time with the same conversation,
\* without a reset in between, creates chunk ids different from those of the
\* first ingestion, so the second ingestion adds records without
\* deduplicating against the first.
C15_ReingestionAddsRecords ==
    [][(last'.op = "add_conversation" /\ ~last'.raised /\ last'.reingested) =>
          /\ \A k \in 1..Len(last'.chunk_ids) :
                last'.chunk_ids[k] \notin StoredIds(backend, settings_conversations_collection)
          /\ Len(RecordsOf(backend', settings_conversations_collection))
                = Len(RecordsOf(backend, settings_conversations_collection))
                      + Len(last'.chunk_ids)
      ]_vars

\* C15 amended: the second ingestion computes the same chunk ids,
\* {conversation_id}_chunk_{index}, as the first; they are all in the
\* collection already and the records of the collection stay as they were.
C15_ReingestionIsIgnored ==
    [][(last'.op = "add_conversation" /\ ~last'.raised /\ last'.reingested) =>
          /\ last'.chunk_ids # <<>>
          /\ \A k \in 1..Len(last'.chunk_ids) :
                /\ last'.chunk_ids[k] = chunk_id(last'.conversation.conversation_id, k - 1)
                /\ last'.chunk_ids[k] \in StoredIds(backend, settings_conversations_collection)
          /\ RecordsOf(backend', settings_conversations_collection)
                = RecordsOf(backend, settings_conversations_collection)
      ]_vars

\* A conversation of two chunks was added a second time, next to another
\* conversation in the collection.
C15_Witness ==
    /\ last.op = "add_conversation" /\ ~last.raised /\ last.reingested
    /\ Len(last.chunk_ids) = 2
    /\ Len(RecordsOf(backend, settings_conversations_collection)) = 3

\* C17: ingest_data always runs to completion and reports the aggregate
\* counts, also when export units are malformed; an export path that does
\* not exist is skipped, and the conversations of the other platforms are
\* written to the store.
C17_IngestCompletes ==
    pc = "ingest_ended" =>
        /\ last.completed /\ ~last.raised
        /\ \A k \in 1..Len(last.conversation_ids) :
              chunk_id(last.conversation_ids[k], 0)
                  \in StoredIds(backend, settings_conversations_collection)
        /\ \A platform \in {"grok", "antigravity"} :
              last.paths[platform].kind = "export" =>
                  \E k \in 1..Len(last.conversation_ids) :
                      last.conversation_ids[k] = platform \o "-1"

(***************************************************************************)
(* Single calls of the parsing helpers: SpecCall                           *)
(*                                                                         *)
(* One helper is called once on one input; `last` keeps the input and      *)
(* what the helper returned.                                               *)
(***************************************************************************)
MaxCandidates == 3       \* candidates given to _rerank_results
MaxContainers == 4       \* containers of an .html file

InitCall ==
    /\ pc = "call_ready"
    /\ last = NoCall
    /\ ChunkIdle /\ ProcIdle /\ SnipIdle /\ StoreIdle
    /\ model = settings_embedding_model
    /\ use_google = FALSE
    /\ cache = EmptyCache(model)

\* A call of ChatGPTProcessor._parse_conversation(conv_data).  Each node
\* names its parent in the tree: the root, or the node listed after it.
ParseConversation ==
    LET Nodes ==
            { [has_message |-> FALSE, parts |-> "", create_time |-> "missing",
               parent |-> "root"] }
            \cup { [has_message |-> TRUE, parts |-> p, create_time |-> ct, parent |-> up] :
                     p \in {"", "text"},
                     ct \in {"missing", "null", "str", "t1", "t2"},
                     up \in {"root", "next"} }
    IN /\ pc = "call_ready"
       /\ pc' = "call_done"
       /\ \E mapping \in SeqsOf(Nodes, 0, MaxItems) :
             last' = [op |-> "_parse_conversation",
                      conv_data |-> [kind |-> "ok", mapping |-> mapping],
                      conversation |->
                          chatgpt_parse_conversation([kind |-> "ok", mapping |-> mapping])]
       /\ UNCHANGED <<chunkVars, model, use_google, cache, storeVars, procVars, snipVars>>

\* A call of _rerank_results(results, query) on candidates that differ by
\* their score and their created_at.
RerankResults ==
    LET Candidates ==
            { [content |-> "a", score |-> s,
               metadata |-> [platform |-> "chatgpt", title |-> "t", created_at |-> c]] :
                s \in {ScoreOf(0), ScoreOf(5)},
                c \in { [kind |-> "absent", days_old |-> 0],
                        [kind |-> "empty", days_old |-> 0],
                        [kind |-> "invalid", days_old |-> 0],
                        CreatedAt(0), CreatedAt(400) } }
    IN /\ pc = "call_ready"
       /\ pc' = "call_done"
       /\ \E cs \in SeqsOf(Candidates, 0, MaxCandidates) :
             \E results \in { [i \in 1..Len(cs) |->
                                  [content |-> cs[i].content, metadata |-> cs[i].metadata,
                                   score |-> cs[i].score, id |-> uuid4(i)]] } :
                last' = [op |-> "_rerank_results", results |-> results,
                         reranked |-> _rerank_results(results)]
       /\ UNCHANGED <<chunkVars, model, use_google, cache, storeVars, procVars, snipVars>>

\* A call of GeminiProcessor._process_html_file(html_file) on a file that
\* parses.
ProcessHtmlFile ==
    LET Containers == { [text |-> x, cls |-> c] :
                          x \in {"short", "text"}, c \in {"none", "user", "assistant"} }
    IN /\ pc = "call_ready"
       /\ pc' = "call_done"
       /\ \E containers \in SeqsOf(Containers, 0, MaxContainers) :
             \E html_file \in { [format |-> "html", kind |-> "ok",
                                  containers |-> containers] } :
                last' = [op |-> "_process_html_file", html_file |-> html_file,
                         conversation |-> _process_html_file(html_file)]
       /\ UNCHANGED <<chunkVars, model, use_google, cache, storeVars, procVars, snipVars>>

\* One call of AntigravityProcessor._process_conversation_dir.
ProcessConversationDir ==
    /\ pc = "call_ready"
    /\ pc' = "call_done"
    /\ \E conv_dir \in { d \in ExportUnits("antigravity") : d.kind = "dir" } :
          last' = [op |-> "_process_conversation_dir", conv_dir |-> conv_dir,
                   result |-> _process_conversation_dir(conv_dir)]
    /\ UNCHANGED <<chunkVars, model, use_google, cache, storeVars, procVars, snipVars>>

\* EmbeddingGenerator(model=m)._cache_embedding(text, embedding) with the
\* vector the provider gave for the text; the cache directory
\* data/embeddings_cache (embeddings.py 40-41) is the same for every model.
CacheEmbedding ==
    /\ pc = "call_ready"
    /\ pc' = "call_cached"
    /\ \E m \in {"emb", "emb:v2"}, text \in {"a", "v2:a"} :
          /\ model' = m
          /\ cache' = _cache_embedding(cache, m, text, Embed(m, text), "ok")
          /\ last' = [op |-> "_cache_embedding", model |-> m, text |-> text]
    /\ UNCHANGED <<chunkVars, use_google, storeVars, procVars, snipVars>>

\* Then EmbeddingGenerator(model=m)._get_cached_embedding(text) of a
\* generator that finds this cache directory.
GetCachedEmbedding ==
    /\ pc = "call_cached"
    /\ pc' = "call_done"
    /\ \E m \in {"emb", "emb:v2"}, text \in {"a", "v2:a"} :
          /\ model' = m
          /\ last' = [op |-> "_get_cached_embedding", model |-> m, text |-> text,
                      stored_model |-> last.model, stored_text |-> last.text,
                      cached_embedding |-> _get_cached_embedding(cache, m, text)]
    /\ UNCHANGED <<chunkVars, use_google, cache, storeVars, procVars, snipVars>>

NextCall ==
    \/ ParseConversation \/ RerankResults \/ ProcessHtmlFile \/ ProcessConversationDir
    \/ CacheEmbedding \/ GetCachedEmbedding
SpecCall == InitCall /\ [][NextCall]_vars

\* The positions of the messages of a conversation in the mapping they come from.
SourcesOf(conversation) ==
    [k \in 1..Len(conversation.messages) |-> conversation.messages[k].src]

\* C21: a message node that fails to parse (no content part, or a
\* create_time that is null or not a number) is dropped on its own: the
\* record still gives a Conversation, and every node that parses is among
\* its messages.
C21_MessageDroppedAlone ==
    last.op = "_parse_conversation" =>
        /\ ~last.conversation.none
        /\ \A i \in 1..Len(last.conv_data.mapping) :
              LET node == last.conv_data.mapping[i]
              IN (node.has_message /\ node.parts = "text"
                      /\ node.create_time \notin {"null", "str"})
                     => \E k \in 1..Len(last.conversation.messages) :
                           last.conversation.messages[k].src = i

\* C22: the messages of a returned Conversation are in non-decreasing
\* create_time order (a node without create_time counts as time 0) whatever
\* the order of the nodes in the mapping, nodes of equal create_time keep
\* their mapping order, and the parent of a node plays no part.
C22_SortedByCreateTime ==
    (last.op = "_parse_conversation" /\ ~last.conversation.none) =>
        LET src == SourcesOf(last.conversation)
            TimeAt(i) == CASE last.conv_data.mapping[i].create_time = "t1" -> 1
                           [] last.conv_data.mapping[i].create_time = "t2" -> 2
                           [] OTHER -> 0
        IN \A k \in 1..(Len(src) - 1) :
              \/ TimeAt(src[k]) < TimeAt(src[k + 1])
              \/ TimeAt(src[k]) = TimeAt(src[k + 1]) /\ src[k] < src[k + 1]

\* Three messages came back: the node listed last in the mapping first, and
\* two nodes of equal create_time in their mapping order, one of them the
\* child of a node listed after it.
C22_Witness ==
    /\ last.op = "_parse_conversation" /\ ~last.conversation.none
    /\ SourcesOf(last.conversation) = <<3, 1, 2>>
    /\ last.conv_data.mapping[1].parent = "next"
    /\ last.conv_data.mapping[1].create_time = "t2"


\* C23: re-ranking leaves the score of a candidate unchanged when its
\* metadata has no created_at, an empty one, or one that does not parse as
\* an ISO-8601 timestamp, and such a candidate never makes re-ranking fail:
\* every candidate given is returned.
C23_UnparseableKeepsScore ==
    last.op = "_rerank_results" =>
        /\ Len(last.reranked) = Len(last.results)
        /\ \A i \in 1..Len(last.results) :
              \E k \in 1..Len(last.reranked) :
                 /\ last.reranked[k].id = last.results[i].id
                 /\ last.results[i].metadata.created_at.kind # "iso"
                       => last.reranked[k].score = last.results[i].score

\* A year-old candidate lost part of its score and went behind two
\* candidates of a lower raw score, one with an invalid and one with an
\* empty created_at.
C23_Witness ==
    /\ last.op = "_rerank_results"
    /\ Len(last.results) = 3
    /\ last.results[1].metadata.created_at.kind = "iso"
    /\ last.results[2].metadata.created_at.kind = "invalid"
    /\ last.results[3].metadata.created_at.kind = "empty"
    /\ [k \in 1..3 |-> last.reranked[k].id] = <<uuid4(2), uuid4(3), uuid4(1)>>
    /\ last.reranked[3].score < last.results[1].score


\* The positions of the accepted containers of an .html file, in order.
Accepted(html_file) ==
    SelectSeq([i \in 1..Len(html_file.containers) |-> i],
              LAMBDA i : html_file.containers[i].text # "short")

\* C24: the messages are the accepted containers in order; a skipped
\* container gives no message and does not toggle the role.  A container
\* with a class signal has the role of the signal; one without has the role
\* user when it is the first accepted container, else the opposite of the
\* role of the accepted container before it.  So with no class signal at all
\* the roles are user, assistant, user, ... strictly alternating.
C24_RolesAlternate ==
    last.op = "_process_html_file" =>
        LET containers == last.html_file.containers
            accepted == Accepted(last.html_file)
            messages == IF last.conversation.none THEN <<>>
                        ELSE last.conversation.messages
        IN /\ [k \in 1..Len(messages) |-> messages[k].src] = accepted
           /\ \A k \in 1..Len(messages) :
                 messages[k].role =
                     IF containers[accepted[k]].cls # "none"
                     THEN containers[accepted[k]].cls
                     ELSE IF k = 1 THEN "user"
                     ELSE IF messages[k - 1].role = "user" THEN "assistant" ELSE "user"
           /\ (\A i \in 1..Len(containers) : containers[i].cls = "none")
                 => \A k \in 1..Len(messages) :
                       messages[k].role = IF k % 2 = 1 THEN "user" ELSE "assistant"

\* Three containers without class signal were accepted around a skipped
\* one: the container after the skipped one is the assistant's.
C24_Witness ==
    /\ last.op = "_process_html_file" /\ ~last.conversation.none
    /\ \A i \in 1..Len(last.html_file.containers) : last.html_file.containers[i].cls = "none"
    /\ Accepted(last.html_file) = <<1, 3, 4>>
    /\ [k \in 1..3 |-> last.conversation.messages[k].role] = <<"user", "assistant", "user">>

\* C25: the title of an Antigravity conversation is the heading of task.md;
\* when task.md gives no heading (it is absent, or it does not start with a
\* heading) the title is the heading of implementation_plan.md; when neither
\* gives one it is "Untitled Conversation".
C25_TitleFallsBackToPlan ==
    (last.op = "_process_conversation_dir" /\ ~last.result.raised
        /\ ~last.result.conversation.none)
    => last.result.conversation.title =
          (IF last.conv_dir.task_md = "heading" THEN "task heading"
           ELSE IF last.conv_dir.plan_md = "heading" THEN "plan heading"
           ELSE "Untitled Conversation")

\* C26: a cache read or write failure is never fatal to generate_embeddings:
\* the call raises only when the provider failed; a text whose cache entry is
\* unreadable or corrupt is sent to the provider like a text without entry; a
\* failed cache write is ignored; the call returns the vector of every input.
C26_CacheFailureNotFatal ==
    [][last'.op = "generate_embeddings" =>
          /\ last'.raised => last'.provider_failed
          /\ ~last'.raised =>
                /\ Len(last'.embeddings) = Len(last'.texts)
                /\ \A i \in 1..Len(last'.texts) :
                      /\ last'.embeddings[i] = Embed(model, last'.texts[i])
                      /\ cache[_get_cache_key(model, last'.texts[i])] = CorruptFile =>
                            \E k \in 1..Len(last'.sent) : last'.sent[k] = last'.texts[i]
      ]_vars

\* A call that returned although the entry of its first text was corrupt and
\* could not be rewritten (open() failed, the file is as it was) and the
\* write of its second text broke off.
C26_Witness ==
    /\ last.op = "generate_embeddings" /\ ~last.raised
    /\ Len(last.texts) = 2 /\ last.texts[1] # last.texts[2]
    /\ last.sent = last.texts
    /\ last.wmode[last.texts[1]] = "open_fails"
    /\ cache[_get_cache_key(model, last.texts[1])] = CorruptFile
    /\ last.wmode[last.texts[2]] = "dump_fails"
    /\ cache[_get_cache_key(model, last.texts[2])] = CorruptFile

(***************************************************************************)
(* Conversations of several platforms in one store: SpecPlatforms          *)
(*                                                                         *)
(* The conversation ids come from the exports (chatgpt_processor.py 68,    *)
(* gemini_processor.py 133 and 151, grok_processor.py 79,                  *)
(* antigravity_processor.py 60): an id of one platform can be an id of     *)
(* another.                                                                *)
(***************************************************************************)
MaxConversations == 2    \* conversations added to one store

\* A call of add_conversation(conversation) with a conversation of any
\* platform.
AddPlatformConversation ==
    /\ pc = "ingest_ready"
    /\ Cardinality(last.ingested) < MaxConversations
    /\ \E conv \in { [conversation_id |-> id, platform |-> platform, title |-> "t",
                       messages |-> [i \in 1..n |-> Message("user", "text", "None", i)]] :
                        id \in {"c1", "c2"}, platform \in {"chatgpt", "gemini", "grok"},
                        n \in 1..MaxIngestMessages },
          fail_at \in 0..1 :
          \E r \in { add_conversation(Store, model, use_google, conv, fail_at, "ok") } :
             /\ StoreBecomes(r.store)
             /\ last' = [op |-> "add_conversation", conversation |-> conv,
                         raised |-> r.raised, chunk_ids |-> r.chunk_ids,
                         reingested |-> conv \in last.ingested,
                         ingested |-> IF r.raised THEN last.ingested
                                      ELSE last.ingested \cup {conv}]
    /\ UNCHANGED pc

NextPlatforms == AddPlatformConversation
SpecPlatforms == InitIngest /\ [][NextPlatforms]_vars

\* C27: chunk ids identify their conversation: a conversation whose
\* (platform, conversation_id) differs from that of every conversation
\* ingested so far, even when another platform's conversation has the same
\* conversation_id, gets chunk ids that are not in the collection, so none of
\* its chunks collides with a chunk of another conversation.
C27_ChunkIdsIdentifyConversation ==
    [][(/\ last'.op = "add_conversation" /\ ~last'.raised
        /\ \A c \in last.ingested :
               <<c.platform, c.conversation_id>>
                   # <<last'.conversation.platform, last'.conversation.conversation_id>>) =>
          /\ \A k \in 1..Len(last'.chunk_ids) :
                last'.chunk_ids[k] \notin StoredIds(backend, settings_conversations_collection)
          /\ Len(RecordsOf(backend', settings_conversations_collection))
                = Len(RecordsOf(backend, settings_conversations_collection))
                      + Len(last'.chunk_ids)
      ]_vars

\* C28: the cache key is injective on (model, text): two different pairs are
\* never turned into the same string before hashing, so a generator never
\* reads as a cache hit an embedding that was stored for another model or
\* another text.
C28_CacheKeyInjective ==
    (/\ last.op = "_get_cached_embedding"
     /\ <<last.stored_model, last.stored_text>> # <<last.model, last.text>>) =>
        /\ _get_cache_key(last.stored_model, last.stored_text)
              # _get_cache_key(last.model, last.text)
        /\ last.cached_embedding = None

(***************************************************************************)
(* The collection handles of one VectorStore: SpecHandles                  *)
(*                                                                         *)
(* One VectorStore is constructed on a persist directory that may hold     *)
(* collections of an earlier run, and its methods are called in any order. *)
(* last.asked[n] counts the calls of client.get_or_create_collection(n)    *)
(* (line 48) since n was last removed by delete_collection(n) or reset().  *)
(***************************************************************************)
InitHandles ==
    /\ pc = "handles"
    /\ ChunkIdle /\ ProcIdle /\ SnipIdle
    /\ model = settings_embedding_model
    /\ use_google = FALSE
    /\ cache = EmptyCache(model)
    /\ backend \in [CollectionNames -> {NoCollection, [exists |-> TRUE, records |-> <<>>]}]
    /\ collections = {}
    /\ uuid_counter = 0
    /\ last = [op |-> "none", asked |-> [n \in CollectionNames |-> 0]]

\* One call of a method of the store.  asks: the calls of
\* client.get_or_create_collection the method makes (lines 47-48: one when
\* the name is not in self.collections); removed: the names the backend
\* was told to delete.
NextHandles ==
    LET Called(op, name, store, raised, asks, removed) ==
            /\ StoreBecomes(store)
            /\ last' = [op |-> op, name |-> name, raised |-> raised, asks |-> asks,
                        removed |-> removed,
                        asked |-> [n \in CollectionNames |->
                                      IF n \in removed THEN 0
                                      ELSE last.asked[n] + (IF n = name THEN asks ELSE 0)]]
            /\ UNCHANGED pc
        asks(name) == IF name \notin collections THEN 1 ELSE 0
    IN /\ pc = "handles"
       /\ \E name \in CollectionNames :
             \/ Called("get_or_create_collection", name,
                       get_or_create_collection(Store, name), FALSE, asks(name), {})
             \/ \E texts \in SeqsOf(Texts, 0, MaxTexts), fail_at \in 0..1 :
                   \E r \in { add_documents(Store, model, use_google, name, texts,
                                             [i \in 1..Len(texts) |-> [platform |-> "chatgpt"]],
                                             GivenIds(texts), fail_at,
                                             [t \in Texts |-> "ok"]) } :
                      Called("add_documents", name, r.store, r.raised, asks(name), {})
             \/ \E query_text \in Texts, fail_at \in 0..1 :
                   \E r \in { query(Store, model, use_google, name, query_text, 0, NoWhere,
                                     fail_at, [t \in Texts |-> "ok"]) } :
                      Called("query", name, r.store, r.raised, asks(name), {})
             \/ \E r \in { get_collection_count(Store, name) } :
                   Called("get_collection_count", name, r.store, FALSE, asks(name), {})
             \/ \E client_fails \in BOOLEAN :
                   \E r \in { delete_collection(Store, name, client_fails) } :
                      Called("delete_collection", name, r.store, ~r.deleted, 0,
                             IF r.deleted THEN {name} ELSE {})
             \/ Called("reset", name, reset(Store), FALSE, 0, CollectionNames)

SpecHandles == InitHandles /\ [][NextHandles]_vars

\* C29: after any sequence of get_or_create_collection, add_documents,
\* query, get_collection_count, delete_collection and reset on one store,
\* every name in self.collections names a collection that exists in the
\* backend; a successful delete_collection(name) removes name from
\* self.collections and a reset() empties it; the backend is asked to get or
\* create a name at most once between two such removals.
C29_HandlesNameExistingCollections ==
    /\ \A n \in collections : backend[n].exists
    /\ \A n \in CollectionNames : last.asked[n] <= 1
    /\ (last.op = "delete_collection" /\ ~last.raised) =>
          last.name \notin collections /\ ~backend[last.name].exists
    /\ last.op = "reset" => collections = {}

\* A collection was deleted while the handle of the other collection, which
\* holds records, stays: the backend was asked for that one once.
C29_Witness ==
    /\ last.op = "delete_collection" /\ ~last.raised
    /\ \E n \in collections :
          /\ n # last.name
          /\ RecordsOf(backend, n) # <<>>
          /\ last.asked[n] = 1

\* A call of generate_embeddings on the per-text path that raised because the
\* provider failed on the j-th cache miss, j = Len(last.sent), followed by a
\* retry of the same call.
RetryAfterFailure ==
    /\ use_google
    /\ last.op = "generate_embeddings" /\ last.raised
    /\ last'.op = "generate_embeddings" /\ last'.texts = last.texts

\* C30 as stated: on the per-text provider path, when the provider fails on
\* the j-th cache-miss text the cache keeps the entries of the j-1 misses
\* before it, and a retry of the same call sends to the provider only the
\* texts from the j-th miss onward.
C30_RetryResumes ==
    [][RetryAfterFailure =>
          \A k \in 1..(Len(last.sent) - 1) :
              /\ _get_cached_embedding(cache, model, last.sent[k]) = Embed(model, last.sent[k])
              /\ \A i \in 1..Len(last'.sent) : last'.sent[i] # last.sent[k]
      ]_vars

\* C30 amended: the same for those of the j-1 misses whose cache write
\* succeeded; a miss whose cache write failed has no readable entry and a
\* retry that returns has sent it again.
C30_RetryResumesAfterWritten ==
    [][RetryAfterFailure =>
          \A k \in 1..(Len(last.sent) - 1) :
              IF last.wmode[last.sent[k]] = "ok"
              THEN /\ _get_cached_embedding(cache, model, last.sent[k])
                        = Embed(model, last.sent[k])
                   /\ \A i \in 1..Len(last'.sent) : last'.sent[i] # last.sent[k]
              ELSE /\ _get_cached_embedding(cache, model, last.sent[k]) = None
                   /\ ~last'.raised =>
                         \E i \in 1..Len(last'.sent) : last'.sent[i] = last.sent[k]
      ]_vars

\* The state between the two calls: the provider failed on the second miss,
\* the vector of the first miss is in the cache, the second text has no entry.
C30_Witness ==
    /\ use_google
    /\ last.op = "generate_embeddings" /\ last.raised
    /\ Len(last.sent) = 2
    /\ last.wmode[last.sent[1]] = "ok"
    /\ _get_cached_embedding(cache, model, last.sent[1]) = Embed(model, last.sent[1])
    /\ cache[_get_cache_key(model, last.sent[2])] = NoFile

=============================================================================
